---------------------------- MODULE Spec2Model ----------------------------
(***************************************************************************)
(* A model of jinaga.js: the IndexedDB fact store (save / load over the    *)
(* fact, ancestor and edge object stores), the feed Subscriber (reference  *)
(* counting, start / stop, the stream event handler), the FetchConnection  *)
(* (post and get with reauthentication) and the AuthorizationRules.        *)
(***************************************************************************)
EXTENDS Integers, Sequences, FiniteSets, TLC

(***************************************************************************)
(* Bounds of the model.                                                    *)
(***************************************************************************)
MaxBatch == 3
MaxLoad == 2

(***************************************************************************)
(* The facts the model draws its inputs from.  A fact is content           *)
(* addressed: its (type, hash) determines its predecessors.                *)
(*   L  a List                                                             *)
(*   T  a Task of list L (the predecessor is a single reference)           *)
(*   C  a TaskComplete that names task T under two roles (as arrays); its  *)
(*      ancestor L is not one of its predecessors                          *)
(***************************************************************************)
Ref(type, hash) == [type |-> type, hash |-> hash]

RefL == Ref("List", "h1")
RefT == Ref("Task", "h2")
RefC == Ref("TaskComplete", "h3")

FactL == [type |-> "List", hash |-> "h1", predecessors |-> <<>>]
FactT == [type |-> "Task", hash |-> "h2",
          predecessors |-> << [role |-> "list", array |-> FALSE, value |-> RefL] >>]
FactC == [type |-> "TaskComplete", hash |-> "h3",
          predecessors |-> << [role |-> "task", array |-> TRUE, value |-> <<RefT>>],
                              [role |-> "prior", array |-> TRUE, value |-> <<RefT>>] >>]

Facts == {FactL, FactT, FactC}

\* More facts, for the queries: a second task of list L, its completion
\* (the predecessor is a single reference) and a second list without tasks.
RefT2 == Ref("Task", "h4")
RefC2 == Ref("TaskComplete", "h5")
RefL2 == Ref("List", "h6")

FactT2 == [type |-> "Task", hash |-> "h4",
           predecessors |-> << [role |-> "list", array |-> FALSE, value |-> RefL] >>]
FactC2 == [type |-> "TaskComplete", hash |-> "h5",
           predecessors |-> << [role |-> "task", array |-> FALSE, value |-> RefT2] >>]
FactL2 == [type |-> "List", hash |-> "h6", predecessors |-> <<>>]

AllFacts == Facts \cup {FactT2, FactC2, FactL2}

Refs == {RefL, RefT, RefC}

RECURSIVE SeqsUpTo(_, _)
SeqsUpTo(S, n) ==
  IF n = 0 THEN { <<>> }
  ELSE LET shorter == SeqsUpTo(S, n - 1)
       IN shorter \cup { Append(s, x) : s \in shorter, x \in S }

Batches == SeqsUpTo(Facts, MaxBatch)

Range(s) == { s[i] : i \in 1..Len(s) }

(***************************************************************************)
(* util/fn: flatten and distinct.                                          *)
(***************************************************************************)
\* flatten(collection, selector), applied to the selected lists:
\* the concatenation of selector(element) over the collection, in order.
RECURSIVE flatten(_)
flatten(lists) ==
  IF lists = <<>> THEN <<>>
  ELSE Head(lists) \o flatten(Tail(lists))

\* Array.prototype.filter(distinct): keeps the first occurrence of each value.
RECURSIVE distinct(_)
distinct(s) ==
  IF s = <<>> THEN <<>>
  ELSE LET init == distinct(SubSeq(s, 1, Len(s) - 1))
           last == s[Len(s)]
       IN IF last \in Range(init) THEN init ELSE Append(init, last)

(***************************************************************************)
(* indexeddb-store.ts: keys and predecessors.                              *)
(***************************************************************************)
\* `${fact.type}:${fact.hash}`: the key is the pair, type first.
factKey(fact) == <<fact.type, fact.hash>>

keyToReference(key) == [type |-> key[1], hash |-> key[2]]

Roles(fact) == [i \in 1..Len(fact.predecessors) |-> fact.predecessors[i].role]

getPredecessors(fact, role) ==
  LET hits == SelectSeq(fact.predecessors, LAMBDA p : p.role = role)
  IN IF hits = <<>> THEN <<>>
     ELSE IF hits[1].array THEN hits[1].value
     ELSE << hits[1].value >>

Keys == { factKey(f) : f \in AllFacts }

FactOfKey(key) == CHOOSE f \in AllFacts : factKey(f) = key

\* The edges saveFact derives from a fact, in the order it adds them.
EdgesOf(fact) ==
  LET fromRole(role) ==
        LET ps == getPredecessors(fact, role)
        IN [i \in 1..Len(ps) |->
              [successor |-> factKey(fact), predecessor |-> factKey(ps[i]), role |-> role]]
  IN flatten([r \in 1..Len(Roles(fact)) |-> fromRole(Roles(fact)[r])])

(***************************************************************************)
(* fact/sorter: TopologicalSorter, as findAllAncestors uses it.  The       *)
(* sorter sees the batch only: a fact is visited once all its predecessors *)
(* have been visited, a fact met too early waits for them and is retried.  *)
(***************************************************************************)
allPredecessors(fact) ==
  flatten([r \in 1..Len(Roles(fact)) |->
             LET ps == getPredecessors(fact, Roles(fact)[r])
             IN [i \in 1..Len(ps) |-> factKey(ps[i])]])

\* Mutant of AncestorSetOf: the ancestors of the predecessors are dropped.
AncestorSetOf_DirectOnly(predecessorValues, fact) ==
  Append(distinct([i \in 1..Len(allPredecessors(fact)) |-> allPredecessors(fact)[i]]),
         factKey(fact))

\* findAllAncestors' map callback: the ancestor list of one fact.
AncestorSetOf(predecessorValues, fact) ==
  Append(distinct(flatten(predecessorValues)), factKey(fact))

SorterInit(facts) ==
  [queue    |-> facts,
   visited  |-> {},
   waiting  |-> [k \in Keys |-> <<>>],
   value    |-> [k \in Keys |-> <<>>],
   received |-> <<>>]

RECURSIVE SorterSort(_)
SorterSort(s) ==
  IF s.queue = <<>> THEN s
  ELSE
    LET fact  == Head(s.queue)
        rest  == Tail(s.queue)
        key   == factKey(fact)
        preds == allPredecessors(fact)
        waitingPredecessors == SelectSeq(preds, LAMBDA k : k \notin s.visited)
    IN IF waitingPredecessors = <<>>
       THEN LET val   == AncestorSetOf([i \in 1..Len(preds) |-> s.value[preds[i]]], fact)
                retry == SelectSeq(s.waiting[key], LAMBDA r : r \notin Range(rest))
            IN SorterSort([queue    |-> rest \o retry,
                           visited  |-> s.visited \cup {key},
                           waiting  |-> [s.waiting EXCEPT ![key] = <<>>],
                           value    |-> [s.value EXCEPT ![key] = val],
                           received |-> Append(s.received, key)])
       ELSE SorterSort([s EXCEPT
                           !.queue = rest,
                           !.waiting = [k \in Keys |->
                              IF k \in Range(waitingPredecessors) /\ fact \notin Range(s.waiting[k])
                              THEN Append(s.waiting[k], fact)
                              ELSE s.waiting[k]]])

SorterFinished(s) == \A k \in Keys : s.waiting[k] = <<>>

\* Mutant of findAllAncestors: sorter.finished() is not consulted.
findAllAncestors_NoFinishedCheck(facts) ==
  [threw |-> FALSE, map |-> SorterSort(SorterInit(facts)).value]

(***************************************************************************)
(* findAllAncestors: the ancestor map of a batch, or the error it throws   *)
(* when the batch does not hold all ancestors of its facts.                *)
(***************************************************************************)
findAllAncestors(facts) ==
  LET sorted == SorterSort(SorterInit(facts))
  IN IF ~SorterFinished(sorted)
     THEN [threw |-> TRUE, map |-> sorted.value]
     ELSE [threw |-> FALSE, map |-> sorted.value]

(***************************************************************************)
(* State.                                                                  *)
(*   factStore      the 'fact' object store: the keys that hold a record   *)
(*   ancestorStore  the 'ancestor' object store: key -> ancestor keys      *)
(*   edgeStore      the 'edge' object store, keyed by                      *)
(*                  (successor, predecessor, role)                         *)
(*   factWrites     how often a record was written under each key          *)
(*   lastCall       the last store operation, its input and its outcome    *)
(*   returned       per key, the number of save calls that returned it     *)
(***************************************************************************)
VARIABLES factStore, ancestorStore, edgeStore, factWrites, lastCall, returned

storeVars == <<factStore, ancestorStore, edgeStore, factWrites>>

NoCall == [op |-> "none", input |-> <<>>, failed |-> FALSE, result |-> <<>>]

(***************************************************************************)
(* One IndexedDB transaction of save.  The saveFact calls of a batch run   *)
(* under Promise.all: each places a request and awaits it, and the         *)
(* transaction serves the requests in the order they were placed.  A       *)
(* request is [op, i, j]: its kind, the envelope's index in the batch and, *)
(* for an edge, the edge's index.                                          *)
(***************************************************************************)
Request(op, i, j) == [op |-> op, i |-> i, j |-> j]

\* saveFact up to its first await: count the edges, or the ancestor entry
\* when the fact has no edges.
saveFactFirstRequest(facts, i) ==
  IF Len(EdgesOf(facts[i])) # 0
  THEN Request("edge.count", i, 0)
  ELSE Request("ancestor.count", i, 0)

TxInit(facts, ancestorMap) ==
  [facts     |-> facts,
   map       |-> ancestorMap,
   fact      |-> factStore,
   ancestor  |-> ancestorStore,
   edge      |-> edgeStore,
   writes    |-> factWrites,
   queue     |-> [i \in 1..Len(facts) |-> saveFactFirstRequest(facts, i)],
   pending   |-> [i \in 1..Len(facts) |-> 0],
   saved     |-> [i \in 1..Len(facts) |-> FALSE],
   error     |-> FALSE]

\* The request saveFact places next for envelope r.i, behind those waiting.
Then(tx, r, op) == Append(Tail(tx.queue), Request(op, r.i, 0))

\* Mutant of onEdgeCount: the comparison of the edge count is inverted.
onEdgeCount_Inverted(tx, r) ==
  LET key       == factKey(tx.facts[r.i])
      edges     == EdgesOf(tx.facts[r.i])
      edgeCount == Cardinality({e \in tx.edge : e.successor = key})
  IN IF edgeCount = Len(edges)
     THEN [tx EXCEPT !.queue = Tail(tx.queue)
                                 \o [j \in 1..Len(edges) |-> Request("edge.add", r.i, j)],
                     !.pending[r.i] = Len(edges)]
     ELSE [tx EXCEPT !.queue = Then(tx, r, "ancestor.count")]

\* saveFact, after edgeObjectStore.index('all').count(key).
onEdgeCount(tx, r) ==
  LET key       == factKey(tx.facts[r.i])
      edges     == EdgesOf(tx.facts[r.i])
      edgeCount == Cardinality({e \in tx.edge : e.successor = key})
  IN IF edgeCount # Len(edges)
     THEN [tx EXCEPT !.queue = Tail(tx.queue)
                                 \o [j \in 1..Len(edges) |-> Request("edge.add", r.i, j)],
                     !.pending[r.i] = Len(edges)]
     ELSE [tx EXCEPT !.queue = Then(tx, r, "ancestor.count")]

\* saveFact, after one edgeObjectStore.add(edge); add fails on a key that exists.
\* Promise.all continues once the last add of the fact has been served.
onEdgeAdd(tx, r) ==
  LET edge == EdgesOf(tx.facts[r.i])[r.j]
  IN IF edge \in tx.edge
     THEN [tx EXCEPT !.error = TRUE]
     ELSE [tx EXCEPT !.edge = @ \cup {edge},
                     !.pending[r.i] = @ - 1,
                     !.queue = IF tx.pending[r.i] = 1
                               THEN Then(tx, r, "ancestor.count")
                               ELSE Tail(tx.queue)]

\* saveFact, after ancestorObjectStore.count(key).
onAncestorCount(tx, r) ==
  IF factKey(tx.facts[r.i]) \notin DOMAIN tx.ancestor
  THEN [tx EXCEPT !.queue = Then(tx, r, "ancestor.add")]
  ELSE [tx EXCEPT !.queue = Then(tx, r, "fact.count")]

\* saveFact, after ancestorObjectStore.add(ancestorMap[key], key).
onAncestorAdd(tx, r) ==
  LET key == factKey(tx.facts[r.i])
  IN IF key \in DOMAIN tx.ancestor
     THEN [tx EXCEPT !.error = TRUE]
     ELSE [tx EXCEPT !.ancestor = (key :> tx.map[key]) @@ @,
                     !.queue = Then(tx, r, "fact.count")]

\* Mutant of onFactCount: the fact is written whatever the count says.
onFactCount_Ignored(tx, r) ==
  LET key == factKey(tx.facts[r.i])
  IN [tx EXCEPT !.fact = @ \cup {key},
                !.writes[key] = @ + 1,
                !.saved[r.i] = TRUE,
                !.queue = Tail(tx.queue)]

\* saveFact, after factObjectStore.count(key): a stored fact yields null.
onFactCount(tx, r) ==
  IF factKey(tx.facts[r.i]) \notin tx.fact
  THEN [tx EXCEPT !.queue = Then(tx, r, "fact.add")]
  ELSE [tx EXCEPT !.queue = Tail(tx.queue)]

\* saveFact, after factObjectStore.add(fact, key): the fact is returned.
onFactAdd(tx, r) ==
  LET key == factKey(tx.facts[r.i])
  IN IF key \in tx.fact
     THEN [tx EXCEPT !.error = TRUE]
     ELSE [tx EXCEPT !.fact = @ \cup {key},
                     !.writes[key] = @ + 1,
                     !.saved[r.i] = TRUE,
                     !.queue = Tail(tx.queue)]

\* saveFact: the continuation that runs when request r has been served.
saveFact(tx, r) ==
  CASE r.op = "edge.count"     -> onEdgeCount(tx, r)
    [] r.op = "edge.add"       -> onEdgeAdd(tx, r)
    [] r.op = "ancestor.count" -> onAncestorCount(tx, r)
    [] r.op = "ancestor.add"   -> onAncestorAdd(tx, r)
    [] r.op = "fact.count"     -> onFactCount(tx, r)
    [] r.op = "fact.add"       -> onFactAdd(tx, r)

\* withTransaction: serve the requests until none is left (the transaction
\* completes) or one fails (the transaction aborts).
RECURSIVE withTransaction(_)
withTransaction(tx) ==
  IF tx.error \/ tx.queue = <<>> THEN tx
  ELSE withTransaction(saveFact(tx, Head(tx.queue)))

\* IndexedDBStore.save: what the call does to the stores and what it returns.
\* A batch findAllAncestors rejects never opens the transaction; a
\* transaction that aborts leaves the stores as they were.
saveOutcome(envelopes, threw, tx) ==
  LET kept == SelectSeq([i \in 1..Len(envelopes) |-> i], LAMBDA i : tx.saved[i])
  IN IF threw \/ tx.error
     THEN [failed |-> TRUE, fact |-> factStore, ancestor |-> ancestorStore,
           edge |-> edgeStore, writes |-> factWrites, result |-> <<>>]
     ELSE [failed |-> FALSE, fact |-> tx.fact, ancestor |-> tx.ancestor,
           edge |-> tx.edge, writes |-> tx.writes,
           result |-> [n \in 1..Len(kept) |-> factKey(envelopes[kept[n]])]]

save(envelopes) ==
  LET ancestors == findAllAncestors(envelopes)
  IN saveOutcome(envelopes, ancestors.threw, withTransaction(TxInit(envelopes, ancestors.map)))

\* IndexedDBStore.load: the records of the distinct ancestors of the references.
load(references) ==
  IF \E i \in 1..Len(references) : factKey(references[i]) \notin DOMAIN ancestorStore
  THEN [failed |-> TRUE, result |-> <<>>]
  ELSE LET allAncestors == flatten([i \in 1..Len(references) |->
                                       ancestorStore[factKey(references[i])]])
           distinctAncestors == distinct(allAncestors)
       IN [failed |-> \E i \in 1..Len(distinctAncestors) : distinctAncestors[i] \notin factStore,
           result |-> distinctAncestors]

\* One save call on the store: its effect, its record and its count.
CallSave(envelopes) ==
  \E out \in {save(envelopes)} :
     /\ factStore' = out.fact
     /\ ancestorStore' = out.ancestor
     /\ edgeStore' = out.edge
     /\ factWrites' = out.writes
     /\ lastCall' = [op |-> "save", input |-> envelopes, failed |-> out.failed,
                     result |-> out.result]
     /\ returned' = [k \in Keys |->
                       IF k \in Range(out.result) THEN returned[k] + 1 ELSE returned[k]]

(***************************************************************************)
(* observer/subscriber.ts: the Subscriber of one feed.                     *)
(*   refCount, bookmark, resolved, disconnect, timer   the object's fields *)
(*        (disconnect and timer are 0 when undefined, else the index of    *)
(*        the connection or interval they hold)                            *)
(*   storedBookmark  the bookmark the store holds for the feed ("" is 0)   *)
(*   conns      the feed connections opened so far                         *)
(*   timers     the intervals set so far                                   *)
(*   handlers   the stream events delivered so far, each with the          *)
(*              position of its handler                                    *)
(*   starts     the start() calls made so far, each with its promise       *)
(*   lastRef    the last addRef / release call and what it returned        *)
(*   held       acquisitions minus releases, as the callers see them       *)
(*   exceeded   whether releases have ever exceeded acquisitions           *)
(*   errors     the number of stream errors the network has raised         *)
(***************************************************************************)
VARIABLES refCount, bookmark, resolved, disconnect, timer, storedBookmark,
          conns, timers, handlers, starts, lastRef, held, exceeded, errors

subscriberVars == <<refCount, bookmark, resolved, disconnect, timer, storedBookmark,
                    conns, timers, handlers, starts, lastRef, held, exceeded, errors>>

(***************************************************************************)
(* http/fetch.ts: one FetchConnection.  The file holds the class twice     *)
(* (lines 12-180 and 205-456), and the first httpPost holds a fetch part   *)
(* and an XMLHttpRequest part; a call runs under one of them.              *)
(*   http   the post or get call in progress or last made                  *)
(*   stream the feed stream getStream reads: what the server has written,  *)
(*          the chunks not yet read, the buffer, and the calls of          *)
(*          onResponse and onError so far                                  *)
(***************************************************************************)
VARIABLES http, stream

fetchVars == <<http, stream>>

(***************************************************************************)
(* Authorization rules (unnamed/part_003).                                 *)
(*   rulesByType  AuthorizationRules.rulesByType: type -> list of rules    *)
(*   authz        the last call of type(), any(), no() or isAuthorized(),  *)
(*                its inputs and its outcome                               *)
(***************************************************************************)
VARIABLES rulesByType, authz

authorizationVars == <<rulesByType, authz>>

(***************************************************************************)
(* The observer of one watched query.                                      *)
(*   observer  whether the watch has started, the results it holds, and    *)
(*             per result the calls of added and of removed so far         *)
(*   filtered  the last application of an existential condition: its input *)
(*             and its outcome under either quantifier                     *)
(***************************************************************************)
VARIABLES observer, filtered

observerVars == <<observer, filtered>>

(***************************************************************************)
(* Hashing and the fact channel.                                           *)
(*   hashed   the last two facts given to computeHash and their hashes     *)
(*   channel  the FactChannel: nextId and the messages written; sent is    *)
(*            the last fact given to sendFact                              *)
(*   described  the last descriptive string parsed or query printed, and   *)
(*            what the parser gave                                         *)
(***************************************************************************)
VARIABLES hashed, channel, sent, described

codecVars == <<hashed, channel, sent, described>>

\* What the operations of the store and of the subscriber leave alone.
otherVars == <<fetchVars, authorizationVars, observerVars, codecVars>>

vars == <<factStore, ancestorStore, edgeStore, factWrites, lastCall, returned,
          refCount, bookmark, resolved, disconnect, timer, storedBookmark,
          conns, timers, handlers, starts, lastRef, held, exceeded, errors,
          http, stream, rulesByType, authz, observer, filtered,
          hashed, channel, sent, described>>

\* More bounds: references held, excess releases, start() calls,
\* connections, stream events and stream errors the model lets happen.
MaxRefs == 2
MaxExcess == 1
MaxStarts == 2
MaxConns == 2
MaxEvents == 2
MaxErrors == 1

\* The reference lists a stream event may carry.
EventReferences == { <<>>, <<RefL>>, <<RefL, RefT>> }

\* Subscriber.addRef and Subscriber.release: the new count and the result.
addRef == [count |-> refCount + 1, result |-> refCount + 1 = 1]

\* Mutant of release: the count is tested before it is decremented.
release_TestedBefore == [count |-> refCount - 1, result |-> refCount = 0]

release == [count |-> refCount - 1, result |-> refCount - 1 = 0]

\* network.load: the closure of the references as the server holds it,
\* predecessors first, each fact once.
RECURSIVE RemoteAncestors(_)
RemoteAncestors(key) ==
  LET preds == allPredecessors(FactOfKey(key))
  IN Append(distinct(flatten([i \in 1..Len(preds) |-> RemoteAncestors(preds[i])])), key)

networkLoad(references) ==
  LET keys == distinct(flatten([i \in 1..Len(references) |->
                                   RemoteAncestors(factKey(references[i]))]))
  IN [i \in 1..Len(keys) |-> FactOfKey(keys[i])]

\* store.whichExist: the references that are in storage.
whichExist(references) == SelectSeq(references, LAMBDA fr : factKey(fr) \in factStore)

\* Mutant of unknownOf: the known references are not filtered out.
unknownOf_Unfiltered(factReferences, knownFactReferences) == factReferences

\* connectToFeed: factReferences.filter(fr => !knownFactReferences.includes(fr)).
unknownOf(factReferences, knownFactReferences) ==
  SelectSeq(factReferences, LAMBDA fr : fr \notin Range(knownFactReferences))

\* network.streamFeed(feed, bookmark, ...): a new connection for start() call s.
Connection(s, b) == [open |-> TRUE, start |-> s, bookmark |-> b, settled |-> FALSE]

\* The disconnect function streamFeed returned, when the field holds one.
Disconnected == IF disconnect # 0 THEN [conns EXCEPT ![disconnect].open = FALSE] ELSE conns

\* resolve() and reject(err) of the promise of start() call s: a promise
\* settles on the first call and ignores the later ones.
PromiseCall(s, how) ==
  [starts EXCEPT ![s].promise = IF @ = "pending" THEN how ELSE @,
                 ![s].calls = @ + 1]

\* connectToFeed: the end of the response handler of event h.
\*   if (!this.resolved) { this.resolved = true; resolve(); }
HandlerEnd(h) ==
  /\ resolved' = TRUE
  /\ starts' = IF ~resolved THEN PromiseCall(handlers[h].start, "resolved") ELSE starts

\* connectToFeed: the error callback, for the promise of start() call s.
\*   if (!this.resolved) { this.resolved = true; reject(err); }
ErrorCallback(s) ==
  /\ resolved' = TRUE
  /\ starts' = [ (IF ~resolved THEN PromiseCall(s, "rejected") ELSE starts)
                   EXCEPT ![s].errors = @ + 1 ]

\* Subscriber.stop.
Stop ==
  /\ timers' = IF timer # 0 THEN [timers EXCEPT ![timer].active = FALSE] ELSE timers
  /\ timer' = 0
  /\ conns' = Disconnected
  /\ disconnect' = 0

(***************************************************************************)
(* FetchConnection.post and get.                                           *)
(***************************************************************************)
\* The statuses a server answers with, the values of responseType and of
\* statusMessage, and what the network does with a request.
Statuses == {200, 201, 204, 302, 401, 403, 404, 407, 419, 503}

ResponseTypes == {"json", "text/plain"}

StatusMessages == {"", "message"}

NetworkEvents ==
  [kind : {"response"}, status : Statuses, responseType : ResponseTypes,
   statusMessage : StatusMessages, parses : BOOLEAN]
  \cup [kind : {"timeout", "failure"}, status : {0}, responseType : {""},
        statusMessage : {""}, parses : {FALSE}]

\* The transports a definition of the class can run under.
Transports(definition) == IF definition = 1 THEN {"fetch", "xhr"} ELSE {"fetch"}

\* A promise that is never settled.
Pending == [settled |-> FALSE, statusCode |-> 0, statusMessage |-> "",
            responseType |-> "", parses |-> FALSE]

Resolved(statusCode, statusMessage, responseType, parses) ==
  [settled |-> TRUE, statusCode |-> statusCode, statusMessage |-> statusMessage,
   responseType |-> responseType, parses |-> parses]

\* Response.ok of fetch.
ok(status) == status >= 200 /\ status <= 299

\* httpPost with fetch: the promise is resolved when response.ok, with
\* response.body (a stream, which JSON.parse does not parse) as the body;
\* for another status, a failure or no answer nothing settles it.
httpPostFetch(event) ==
  IF event.kind = "response" /\ ok(event.status)
  THEN Resolved(event.status, event.statusMessage, event.responseType, FALSE)
  ELSE Pending

\* httpPost with XMLHttpRequest: onload resolves with the status,
\* ontimeout with 408, onerror with 500.
httpPostXhr(event) ==
  CASE event.kind = "response" ->
         Resolved(event.status, event.statusMessage, event.responseType, event.parses)
    [] event.kind = "timeout" -> Resolved(408, "Request Timeout", "", FALSE)
    [] event.kind = "failure" -> Resolved(500, "Network request failed", "", FALSE)

httpPost(transport, event) ==
  IF transport = "xhr" THEN httpPostXhr(event) ELSE httpPostFetch(event)

\* httpGet: the first definition resolves when response.ok, the second for
\* every response; a failure settles neither.
httpGet(definition, event) ==
  IF event.kind = "response" /\ (definition = 2 \/ ok(event.status))
  THEN Resolved(event.status, event.statusMessage, event.responseType, FALSE)
  ELSE Pending

\* post and get: the statuses that ask for reauthentication.
isReauthenticate(statusCode) == statusCode \in {401, 407, 419}

\* The body of a 200 response: response.response, or JSON.parse of it.
bodyOf(response) ==
  IF response.responseType = "json" \/ response.parses
  THEN [result |-> "success", response |-> "body", error |-> ""]
  ELSE [result |-> "threw", response |-> "", error |-> "SyntaxError"]

\* post, from the last response on: what the call returns or throws.
postOutcome(response) ==
  CASE response.statusCode = 403 ->
         [result |-> "threw", response |-> "", error |-> response.statusMessage]
    [] response.statusCode # 403 /\ response.statusCode >= 400 ->
         [result |-> "retry", response |-> "",
          error |-> IF response.statusMessage # "" THEN response.statusMessage
                    ELSE "Unknown error"]
    [] response.statusCode = 201 ->
         [result |-> "success", response |-> "empty", error |-> ""]
    [] response.statusCode = 200 -> bodyOf(response)
    [] OTHER ->
         [result |-> "threw", response |-> "", error |-> "Unexpected status code"]

\* get, from the last response on.
getOutcome(response) ==
  CASE response.statusCode >= 400 ->
         [result |-> "threw", response |-> "", error |-> response.statusMessage]
    [] response.statusCode = 200 -> bodyOf(response)
    [] OTHER ->
         [result |-> "threw", response |-> "", error |-> "Unexpected status code"]

outcomeOf(op, response) == IF op = "post" THEN postOutcome(response) ELSE getOutcome(response)

NoOutcome == [result |-> "none", response |-> "", error |-> ""]

\* No call has been made: definition 0 is no definition yet.
NoHttp ==
  [definition |-> 0, transport |-> "", op |-> "none", pc |-> "idle",
   reauthenticates |-> FALSE, credentials |-> 0, requests |-> <<>>,
   events |-> <<>>, responses |-> <<>>, reauthenticated |-> 0,
   outcome |-> NoOutcome]

(***************************************************************************)
(* FetchConnection.getStream: the feed stream, read from the body of the   *)
(* response.  The server writes lines of JSON, each ended by a newline, as *)
(* bytes; the network hands them to the reader in chunks of any size.      *)
(***************************************************************************)
\* The bytes and the characters of the lines: [ ] 1 2 and the newline.
Newline == "\n"

CharOf == (10 :> Newline) @@ (49 :> "1") @@ (50 :> "2") @@ (91 :> "[") @@ (93 :> "]")

ByteOf(char) == CHOOSE byte \in DOMAIN CharOf : CharOf[byte] = char

Whitespace == {Newline, " ", "\r", "\t"}

\* The lines a server sends, and the largest chunk the network hands over.
Line1 == << "[", "1", "]" >>

Line2 == << "[", "2", "]" >>

FeedLines == {<< Line1 >>, << Line1, Line2 >>, << Line2, Line1 >>}

MaxChunk == 5

\* The bytes of a stream of lines.
RECURSIVE encoded(_)
encoded(lines) ==
  IF lines = << >> THEN << >>
  ELSE [i \in 1..Len(Head(lines)) |-> ByteOf(Head(lines)[i])] \o << ByteOf(Newline) >>
         \o encoded(Tail(lines))

\* TextDecoder.decode(bytes, {stream: true}) of bytes below 128.
decode(bytes) == [i \in 1..Len(bytes) |-> CharOf[bytes[i]]]

\* String.prototype.split(separator).
RECURSIVE split(_, _)
split(text, separator) ==
  IF \A i \in 1..Len(text) : text[i] # separator THEN << text >>
  ELSE LET at == CHOOSE i \in 1..Len(text) :
                   text[i] = separator /\ \A j \in 1..(i - 1) : text[j] # separator
       IN << SubSeq(text, 1, at - 1) >>
            \o split(SubSeq(text, at + 1, Len(text)), separator)

\* String.prototype.trim.
RECURSIVE trim(_)
trim(text) ==
  IF text = << >> THEN text
  ELSE IF Head(text) \in Whitespace THEN trim(Tail(text))
  ELSE IF text[Len(text)] \in Whitespace THEN trim(SubSeq(text, 1, Len(text) - 1))
  ELSE text

\* JSON.parse succeeds: over these characters a value is a number or an
\* array of no value or of one.
RECURSIVE parses(_)
parses(text) ==
  IF text = << >> THEN FALSE
  ELSE IF \A i \in 1..Len(text) : text[i] \in {"1", "2"} THEN TRUE
  ELSE /\ Len(text) >= 2
       /\ Head(text) = "[" /\ text[Len(text)] = "]"
       /\ Len(text) = 2 \/ parses(SubSeq(text, 2, Len(text) - 1))

\* reader.read() settles: the next chunk, or done when the stream has ended.
ReadResult(done, value) == [done |-> done, value |-> value]

NoStream ==
  [pc |-> "idle", lines |-> << >>, sent |-> 0, chunks |-> << >>, ended |-> FALSE,
   strict |-> FALSE, reads |-> 0, buffer |-> << >>, delivered |-> << >>,
   parseErrors |-> << >>, errors |-> 0, closed |-> FALSE, closeThrew |-> FALSE]

\* getStream, processChunk: called with the result of the one reader.read().
\* The result {done, value} is what decoder.decode is given: a decoder that
\* checks its argument throws a TypeError, which reject hands to the catch
\* that calls onError; a decoder that does not is taken to decode the value.
\* Every line of the buffer that is not empty is parsed and given to
\* onResponse, or reported to onError when JSON.parse throws.
processChunk(s, chunk) ==
  IF s.strict
  THEN [s EXCEPT !.pc = "failed", !.errors = @ + 1, !.reads = 0]
  ELSE LET buffer == s.buffer \o decode(chunk.value)
           lines  == split(buffer, Newline)
           trimmed == [i \in 1..Len(lines) |-> trim(lines[i])]
       IN [s EXCEPT !.buffer = buffer,
                    !.delivered = @ \o SelectSeq(trimmed, parses),
                    !.parseErrors = @ \o SelectSeq(trimmed,
                                        LAMBDA line : line # << >> /\ ~parses(line)),
                    !.pc = IF chunk.done THEN "resolved" ELSE @,
                    !.reads = 0]

(***************************************************************************)
(* AuthorizationRules and Evidence.                                        *)
(***************************************************************************)
\* The facts of the authorization cases: two lists, each with its owner,
\* and a task that belongs to both lists.
RefU1 == Ref("User", "u1")
RefU2 == Ref("User", "u2")
RefU3 == Ref("User", "u3")
RefList1 == Ref("List", "l1")
RefList2 == Ref("List", "l2")

OwnedList1 == [type |-> "List", hash |-> "l1",
               predecessors |-> << [role |-> "owner", array |-> FALSE, value |-> RefU1] >>]
OwnedList2 == [type |-> "List", hash |-> "l2",
               predecessors |-> << [role |-> "owner", array |-> FALSE, value |-> RefU2] >>]
SharedTask == [type |-> "Task", hash |-> "t1",
               predecessors |-> << [role |-> "list", array |-> TRUE,
                                    value |-> <<RefList1, RefList2>>] >>]

EvidenceFacts == {OwnedList1, OwnedList2, SharedTask}

\* userFact: null (no user is logged in) or a user.
NoUser == Ref("", "")

UserFacts == {NoUser, RefU1, RefU2, RefU3}

AuthorizedTypes == {"Task", "List"}

\* Steps of a legacy query.
Join(direction, role) == [step |-> "join", direction |-> direction, role |-> role,
                          name |-> "", value |-> ""]

PropertyCondition(name, value) == [step |-> "property", direction |-> "", role |-> "",
                                   name |-> name, value |-> value]

\* Conditions, matches and specifications.
Role(name, predecessorType) == [name |-> name, predecessorType |-> predecessorType]

PathCondition(rolesLeft, labelRight, rolesRight) ==
  [type |-> "path", rolesLeft |-> rolesLeft, labelRight |-> labelRight,
   rolesRight |-> rolesRight, exists |-> FALSE, matches |-> <<>>]

ExistentialCondition(exists, matches) ==
  [type |-> "existential", rolesLeft |-> <<>>, labelRight |-> "",
   rolesRight |-> <<>>, exists |-> exists, matches |-> matches]

Match(unknown, conditions) == [unknown |-> unknown, conditions |-> conditions]

Specification(given, matches, label) ==
  [given |-> given, matches |-> matches, projection |-> [type |-> "fact", label |-> label]]

\* The failure of a walk, and its result.
Threw(message) == [threw |-> TRUE, value |-> <<>>, message |-> message]

Returned(value) == [threw |-> FALSE, value |-> value, message |-> ""]

NotDefined == "The fact is not defined."

\* Evidence.findFact: the record of the reference, or null (the empty sequence).
findFact(factRecords, reference) ==
  IF \E record \in factRecords : factKey(record) = factKey(reference)
  THEN << CHOOSE record \in factRecords : factKey(record) = factKey(reference) >>
  ELSE << >>

\* getPredecessors of memory-store: no predecessors for a fact that is null.
getPredecessorsOrNone(found, role) ==
  IF found = << >> THEN << >> ELSE getPredecessors(found[1], role)

\* Evidence.executeStep, of a legacy query.
executeStep(factRecords, facts, step) ==
  IF step.step = "property" /\ step.name = "type"
  THEN Returned(SelectSeq(facts, LAMBDA fact : fact.type = step.value))
  ELSE IF step.step = "join" /\ step.direction = "predecessor"
  THEN Returned(flatten([i \in 1..Len(facts) |->
                  getPredecessorsOrNone(findFact(factRecords, facts[i]), step.role)]))
  ELSE Threw("Defect in parsing authorization rule.")

\* Evidence.query / executeQuery: the steps reduce the list [start].
RECURSIVE executeQuery(_, _, _)
executeQuery(factRecords, facts, steps) ==
  IF steps = << >> THEN Returned(facts)
  ELSE LET next == executeStep(factRecords, facts, Head(steps))
       IN IF next.threw THEN next
          ELSE executeQuery(factRecords, next.value, Tail(steps))

\* Evidence.executePredecessorStep: throws for a fact that is not in evidence.
executePredecessorStep(factRecords, set, name, predecessorType) ==
  IF \E i \in 1..Len(set) : findFact(factRecords, set[i]) = << >>
  THEN Threw(NotDefined)
  ELSE Returned(flatten([i \in 1..Len(set) |->
         SelectSeq(getPredecessors(findFact(factRecords, set[i])[1], name),
                   LAMBDA predecessor : predecessor.type = predecessorType)]))

\* pathCondition.rolesRight.reduce(executePredecessorStep, [start]): set is
\* what the reduction holds, a list of references or the error thrown.
RECURSIVE walkRolesRight(_, _, _)
walkRolesRight(factRecords, set, roles) ==
  IF set.threw \/ roles = << >> THEN set
  ELSE walkRolesRight(factRecords,
         executePredecessorStep(factRecords, set.value, Head(roles).name,
                                Head(roles).predecessorType),
         Tail(roles))

\* The end of executePathCondition: successor steps throw.
rolesLeftChecked(pathCondition, predecessors) ==
  IF predecessors.threw THEN predecessors
  ELSE IF Len(pathCondition.rolesLeft) > 0
  THEN Threw("Cannot execute successor steps on evidence.")
  ELSE predecessors

\* Evidence.executePathCondition.
executePathCondition(factRecords, references, pathCondition) ==
  IF pathCondition.labelRight \notin DOMAIN references
  THEN Threw("The label is not defined.")
  ELSE rolesLeftChecked(pathCondition,
         walkRolesRight(factRecords,
                        Returned(<< references[pathCondition.labelRight] >>),
                        pathCondition.rolesRight))

\* The first of the results that threw, or the results flattened.
firstThrown(results) ==
  IF \E i \in 1..Len(results) : results[i].threw
  THEN results[CHOOSE i \in 1..Len(results) :
                 /\ results[i].threw
                 /\ \A j \in 1..(i - 1) : ~results[j].threw]
  ELSE Returned(flatten([i \in 1..Len(results) |-> results[i].value]))

RECURSIVE executeMatches(_, _, _)
RECURSIVE executeMatch(_, _, _)
RECURSIVE filterByCondition(_, _, _, _, _)
RECURSIVE filterByConditions(_, _, _, _, _)

\* Evidence.executeMatches: each match extends every tuple of references;
\* tuples is what the reduction holds, a list of tuples or the error thrown.
executeMatches(factRecords, tuples, matches) ==
  IF tuples.threw \/ matches = << >> THEN tuples
  ELSE executeMatches(factRecords,
         firstThrown([i \in 1..Len(tuples.value) |->
                        executeMatch(factRecords, tuples.value[i], Head(matches))]),
         Tail(matches))

\* The references of a match, each with the unknown bound to a result of
\* the first condition.
withUnknown(references, unknown, result) ==
  IF result.threw THEN result
  ELSE Returned([i \in 1..Len(result.value) |->
                   (unknown :> result.value[i]) @@ references])

\* Evidence.executeMatch.
executeMatch(factRecords, references, match) ==
  IF Len(match.conditions) = 0
  THEN Threw("A match must have at least one condition.")
  ELSE IF match.conditions[1].type # "path"
  THEN Threw("The first condition must be a path condition.")
  ELSE filterByConditions(factRecords, references, match.unknown,
         withUnknown(references, match.unknown,
           executePathCondition(factRecords, references, match.conditions[1])),
         Tail(match.conditions))

\* The loop over the remaining conditions of a match; results is the list
\* the loop holds, or the error thrown.
filterByConditions(factRecords, references, unknown, results, conditions) ==
  IF results.threw \/ conditions = << >> THEN results
  ELSE filterByConditions(factRecords, references, unknown,
         filterByCondition(factRecords, references, unknown, results.value,
                           Head(conditions)),
         Tail(conditions))

\* The results whose unknown is among the results of the other path.
inOtherResults(unknown, results, otherResults) ==
  IF otherResults.threw THEN otherResults
  ELSE Returned(SelectSeq(results, LAMBDA result :
         \E i \in 1..Len(otherResults.value) : otherResults.value[i] = result[unknown]))

\* The results of which the matches exist, or do not exist.
matchingReferences(exists, results, matches) ==
  IF firstThrown(matches).threw THEN firstThrown(matches)
  ELSE Returned(flatten([i \in 1..Len(results) |->
         IF exists = (Len(matches[i].value) > 0) THEN << results[i] >> ELSE << >>]))

\* Evidence.filterByCondition.
filterByCondition(factRecords, references, unknown, results, condition) ==
  IF condition.type = "path"
  THEN inOtherResults(unknown, results,
         executePathCondition(factRecords, references, condition))
  ELSE matchingReferences(condition.exists, results,
         [i \in 1..Len(results) |->
            executeMatches(factRecords, Returned(<< results[i] >>), condition.matches)])

\* results.map(result => result[label]).
labelled(label, results) ==
  IF results.threw THEN results
  ELSE Returned([i \in 1..Len(results.value) |-> results.value[i][label]])

\* Evidence.executeSpecification.
executeSpecification(factRecords, givenName, matches, label, fact) ==
  labelled(label,
    executeMatches(factRecords,
                   Returned(<< (givenName :> Ref(fact.type, fact.hash)) >>), matches))

headStep(step) ==
  IF step.step = "property" THEN step.name = "type"
  ELSE IF step.step = "join" THEN step.direction = "predecessor"
  ELSE FALSE

\* The rules.
NoSpecification == Specification(<< >>, << >>, "")

AuthorizationRuleAny ==
  [kind |-> "any", head |-> << >>, tail |-> << >>, specification |-> NoSpecification]

AuthorizationRuleNone ==
  [kind |-> "none", head |-> << >>, tail |-> << >>, specification |-> NoSpecification]

\* A tail of no steps stands for the tail that is null.
AuthorizationRuleQuery(head, tail) ==
  [kind |-> "query", head |-> head, tail |-> tail, specification |-> NoSpecification]

AuthorizationRuleSpecification(specification) ==
  [kind |-> "specification", head |-> << >>, tail |-> << >>,
   specification |-> specification]

\* What a rule answers: it throws, or it returns a boolean; queried holds the
\* references it handed to store.query.
Answer(value, queried) ==
  [threw |-> FALSE, value |-> value, message |-> "", queried |-> queried]

Rejection(message) ==
  [threw |-> TRUE, value |-> FALSE, message |-> message, queried |-> {}]

\* Mutant of queryIsAuthorized: the query is evaluated also when no user is
\* logged in.
queryIsAuthorized_NoUserTest(rule, userFact, fact, factRecords, storeAnswer) ==
  LET predecessors == executeQuery(factRecords, << Ref(fact.type, fact.hash) >>,
                                   rule.head)
  IN IF predecessors.threw THEN Rejection(predecessors.message)
     ELSE LET results == flatten([i \in 1..Len(predecessors.value) |->
                           IF rule.tail = << >> THEN << predecessors.value[i] >>
                           ELSE storeAnswer])
          IN Answer(\E i \in 1..Len(results) : results[i] = userFact,
                    IF rule.tail = << >> THEN {} ELSE Range(predecessors.value))

\* AuthorizationRuleQuery.isAuthorized; storeAnswer is what store.query
\* answers for the tail.
queryIsAuthorized(rule, userFact, fact, factRecords, storeAnswer) ==
  IF userFact = NoUser THEN Answer(FALSE, {})
  ELSE LET predecessors == executeQuery(factRecords, << Ref(fact.type, fact.hash) >>,
                                        rule.head)
       IN IF predecessors.threw THEN Rejection(predecessors.message)
          ELSE LET results == flatten([i \in 1..Len(predecessors.value) |->
                                IF rule.tail = << >> THEN << predecessors.value[i] >>
                                ELSE storeAnswer])
               IN Answer(\E i \in 1..Len(results) : results[i] = userFact,
                         IF rule.tail = << >> THEN {} ELSE Range(predecessors.value))

RECURSIVE seeksSuccessors(_)
seeksSuccessors(match) ==
  \E i \in 1..Len(match.conditions) :
    LET condition == match.conditions[i]
    IN \/ condition.type = "path" /\ Len(condition.rolesLeft) > 0
       \/ /\ condition.type = "existential"
          /\ \E j \in 1..Len(condition.matches) : seeksSuccessors(condition.matches[j])

\* Mutant of someEquals: any result authorizes, whoever the user is.
someEquals_AnyResult(userFact, results) ==
  IF results.threw THEN Rejection(results.message)
  ELSE Answer(Len(results.value) > 0, {})

\* results.some(factReferenceEquals(userFact)), or the error of the walk.
someEquals(userFact, results) ==
  IF results.threw THEN Rejection(results.message)
  ELSE Answer(\E i \in 1..Len(results.value) : results.value[i] = userFact, {})

\* Mutant of specificationIsAuthorized: a walk that lacks a fact in the
\* evidence is answered from the store.
specificationIsAuthorized_StoreFallback(rule, userFact, fact, factRecords, storeAnswer) ==
  IF userFact = NoUser THEN Answer(FALSE, {})
  ELSE IF \E i \in 1..Len(rule.specification.matches) :
            seeksSuccessors(rule.specification.matches[i])
  THEN Rejection("Not implemented.")
  ELSE IF executeSpecification(factRecords, rule.specification.given[1],
            rule.specification.matches, rule.specification.projection.label,
            fact).threw
  THEN Answer(\E i \in 1..Len(storeAnswer) : storeAnswer[i] = userFact,
              {Ref(fact.type, fact.hash)})
  ELSE someEquals(userFact,
         executeSpecification(factRecords, rule.specification.given[1],
                              rule.specification.matches,
                              rule.specification.projection.label, fact))

\* AuthorizationRuleSpecification.isAuthorized; storeAnswer stands for the
\* store the rule is handed, which it does not use.
specificationIsAuthorized(rule, userFact, fact, factRecords, storeAnswer) ==
  IF userFact = NoUser THEN Answer(FALSE, {})
  ELSE IF Len(rule.specification.given) # 1
  THEN Rejection("The specification must be given a single fact.")
  ELSE IF rule.specification.projection.type # "fact"
  THEN Rejection("The projection must be a singular label.")
  ELSE IF ~ \E i \in 1..Len(rule.specification.matches) :
              seeksSuccessors(rule.specification.matches[i])
  THEN someEquals(userFact,
         executeSpecification(factRecords, rule.specification.given[1],
                              rule.specification.matches,
                              rule.specification.projection.label, fact))
  ELSE Rejection("Not implemented.")

\* rule.isAuthorized(userFact, fact, evidence, store).
ruleIsAuthorized(rule, userFact, fact, factRecords, storeAnswer) ==
  CASE rule.kind = "any" -> Answer(TRUE, {})
    [] rule.kind = "none" -> Answer(FALSE, {})
    [] rule.kind = "query" ->
         queryIsAuthorized(rule, userFact, fact, factRecords, storeAnswer)
    [] rule.kind = "specification" ->
         specificationIsAuthorized(rule, userFact, fact, factRecords, storeAnswer)

\* AuthorizationRules.withRule.
withRule(rules, type, rule) == [rules EXCEPT ![type] = Append(@, rule)]

\* Mutant of oldType: the whole query is the head and there is no tail.
oldType_NoTail(steps) ==
  IF Len(steps) = 0 THEN Threw("the query matches the fact itself")
  ELSE IF steps[1].step # "join"
  THEN Threw("the query does not begin with a predecessor")
  ELSE IF steps[1].direction # "predecessor" THEN Threw("the query expects successors")
  ELSE Returned(AuthorizationRuleQuery(steps, << >>))

\* AuthorizationRules.oldType: the rule of a preposition, or a throw.
oldType(steps) ==
  IF Len(steps) = 0 THEN Threw("the query matches the fact itself")
  ELSE IF steps[1].step # "join"
  THEN Threw("the query does not begin with a predecessor")
  ELSE IF steps[1].direction # "predecessor" THEN Threw("the query expects successors")
  ELSE IF \A i \in 1..Len(steps) : headStep(steps[i])
  THEN Returned(AuthorizationRuleQuery(steps, << >>))
  ELSE LET index == CHOOSE i \in 1..Len(steps) :
                      /\ ~headStep(steps[i])
                      /\ \A j \in 1..(i - 1) : headStep(steps[j])
       IN Returned(AuthorizationRuleQuery(SubSeq(steps, 1, index - 1),
                                          SubSeq(steps, index, Len(steps))))

\* AuthorizationRules.newType.
newType(specification) == Returned(AuthorizationRuleSpecification(specification))

\* AuthorizationRules.type: the argument is a preposition or a specification.
PrepositionArgument(steps) ==
  [kind |-> "preposition", steps |-> steps, specification |-> NoSpecification]

SpecificationArgument(specification) ==
  [kind |-> "specification", steps |-> << >>, specification |-> specification]

NoArgument == [kind |-> "", steps |-> << >>, specification |-> NoSpecification]

typeRule(argument) ==
  IF argument.kind = "preposition" THEN oldType(argument.steps)
  ELSE newType(argument.specification)

\* Mutant of someAuthorized: a rule that authorizes ends the evaluation, and
\* the rules after it are not asked.
someAuthorized_ShortCircuit(answers) ==
  LET first == IF \E i \in 1..Len(answers) : ~answers[i].threw /\ answers[i].value
               THEN CHOOSE i \in 1..Len(answers) :
                      /\ ~answers[i].threw /\ answers[i].value
                      /\ \A j \in 1..(i - 1) : answers[j].threw \/ ~answers[j].value
               ELSE Len(answers)
  IN [threw |-> \E i \in 1..first : answers[i].threw,
      result |-> /\ \A i \in 1..first : ~answers[i].threw
                 /\ \E i \in 1..first : answers[i].value,
      answers |-> SubSeq(answers, 1, first)]

\* results.some(b => b) over the answers of mapAsync, which rejects when a
\* rule rejects.
someAuthorized(answers) ==
  [threw |-> \E i \in 1..Len(answers) : answers[i].threw,
   result |-> /\ \A i \in 1..Len(answers) : ~answers[i].threw
              /\ \E i \in 1..Len(answers) : answers[i].value,
   answers |-> answers]

\* AuthorizationRules.isAuthorized: a type that was given no rule has no list.
isAuthorized(rules, userFact, fact, factRecords, storeAnswer) ==
  IF rules[fact.type] = << >>
  THEN [threw |-> FALSE, result |-> FALSE, answers |-> << >>]
  ELSE someAuthorized([i \in 1..Len(rules[fact.type]) |->
         ruleIsAuthorized(rules[fact.type][i], userFact, fact, factRecords,
                          storeAnswer)])

\* The rules that the cases register.
MaxRules == 2

OwnerOfList == << Join("predecessor", "list"), PropertyCondition("type", "List"),
                  Join("predecessor", "owner") >>

MemberOfList == << Join("predecessor", "list"), Join("successor", "member"),
                   Join("predecessor", "user") >>

SuccessorsFirst == << Join("successor", "task") >>

ConditionFirst == << PropertyCondition("type", "Task"), Join("predecessor", "list") >>

OwnerPath == PathCondition(<< >>, "task",
               << Role("list", "List"), Role("owner", "User") >>)

OwnerSpecification ==
  Specification(<< "task" >>, << Match("user", << OwnerPath >>) >>, "user")

InListSpecification ==
  Specification(<< "task" >>,
    << Match("user", << OwnerPath,
         ExistentialCondition(TRUE,
           << Match("list", << PathCondition(<< >>, "task",
                                 << Role("list", "List") >>) >>) >>) >>) >>, "user")

AssigneeSpecification ==
  Specification(<< "task" >>,
    << Match("user", << PathCondition(<< Role("assignee", "User") >>, "task",
                          << Role("list", "List") >>) >>) >>, "user")

AssignedSpecification ==
  Specification(<< "task" >>,
    << Match("user", << OwnerPath,
         ExistentialCondition(TRUE,
           << Match("assignment", << PathCondition(<< Role("task", "Task") >>, "task",
                                       << >>) >>) >>) >>) >>, "user")

\* The arguments of AuthorizationRules.type in the cases; the type without
\* rules stays without rules.
RegisteredTypes == {"Task"}

Arguments ==
  {PrepositionArgument(OwnerOfList), PrepositionArgument(MemberOfList),
   PrepositionArgument(SuccessorsFirst), PrepositionArgument(<< >>),
   PrepositionArgument(ConditionFirst),
   SpecificationArgument(OwnerSpecification),
   SpecificationArgument(InListSpecification),
   SpecificationArgument(AssigneeSpecification),
   SpecificationArgument(AssignedSpecification)}

StoreAnswers == {<< >>, << RefU1 >>}

NoRules == [type \in AuthorizedTypes |-> << >>]

NoAuthorization ==
  [op |-> "none", type |-> "", argument |-> NoArgument, threw |-> FALSE,
   userFact |-> NoUser, fact |-> SharedTask, factRecords |-> {},
   storeAnswer |-> << >>, result |-> FALSE, answers |-> << >>]


(***************************************************************************)
(* indexeddb-store.ts: query.  A path is a list of keys, the start first.  *)
(***************************************************************************)
\* A step that keeps the paths of which the sub-query has results, or has
\* none.
ExistentialStep(quantifier, steps) ==
  [step |-> "existential", quantifier |-> quantifier, steps |-> steps]

\* The keys in the order of the strings `type:hash`, which is the order in
\* which an index returns the edges of one fact and role.
SortedKeys ==
  << factKey(FactL), factKey(FactL2), factKey(FactT), factKey(FactT2),
     factKey(FactC), factKey(FactC2) >>

\* index.getAll([fact, role]) on the successor index (for a predecessor
\* join) or on the predecessor index, mapped to the other end of each edge.
getAll(edges, direction, fact, role) ==
  SelectSeq(SortedKeys, LAMBDA key :
    IF direction = "predecessor"
    THEN [successor |-> fact, predecessor |-> key, role |-> role] \in edges
    ELSE [successor |-> key, predecessor |-> fact, role |-> role] \in edges)

\* fact.startsWith(step.value + ':'), for types that hold no colon.
startsWith(fact, value) == fact[1] = value

\* Mutant of quantified: the quantifier is not looked at.
quantified_ExistsOnly(quantifier, paths, results) ==
  IF firstThrown(results).threw THEN firstThrown(results)
  ELSE Returned(flatten([i \in 1..Len(paths) |->
         IF Len(results[i].value) > 0 THEN << paths[i] >> ELSE << >>]))

\* Mutant of quantified: the test of the quantifier is the wrong way round.
quantified_Swapped(quantifier, paths, results) ==
  IF firstThrown(results).threw THEN firstThrown(results)
  ELSE Returned(flatten([i \in 1..Len(paths) |->
         IF (quantifier = "Exists") = (Len(results[i].value) = 0)
         THEN << paths[i] >> ELSE << >>]))

\* filterAsync over the paths, given the results of the sub-query of each.
quantified(quantifier, paths, results) ==
  IF firstThrown(results).threw THEN firstThrown(results)
  ELSE Returned(flatten([i \in 1..Len(paths) |->
         IF (quantifier = "Exists") = (Len(results[i].value) > 0)
         THEN << paths[i] >> ELSE << >>]))

RECURSIVE executeQueryOnIndex(_, _, _)
RECURSIVE executeStepOnIndex(_, _, _)

\* executeQuery of the store: the steps reduce the list of paths; paths is
\* what the reduction holds, a list of paths or the rejection.
executeQueryOnIndex(edges, paths, steps) ==
  IF paths.threw \/ steps = << >> THEN paths
  ELSE executeQueryOnIndex(edges, executeStepOnIndex(edges, paths.value, Head(steps)),
                           Tail(steps))

\* Mutant of executeStepOnIndex: a join reads the index of the other
\* direction.
executeStepOnIndex_OtherIndex(edges, paths, step) ==
  CASE step.step = "property" /\ step.name = "type" ->
         Returned(SelectSeq(paths, LAMBDA path : startsWith(path[Len(path)], step.value)))
    [] step.step = "join" ->
         Returned(flatten([i \in 1..Len(paths) |->
           [j \in 1..Len(getAll(edges, IF step.direction = "predecessor"
                                       THEN "successor" ELSE "predecessor",
                                paths[i][Len(paths[i])], step.role)) |->
              Append(paths[i], getAll(edges, IF step.direction = "predecessor"
                                             THEN "successor" ELSE "predecessor",
                                      paths[i][Len(paths[i])], step.role)[j])]]))
    [] step.step = "existential" ->
         quantified(step.quantifier, paths,
           [i \in 1..Len(paths) |->
              executeQueryOnIndex(edges, Returned(<< << paths[i][Len(paths[i])] >> >>),
                                  step.steps)])
    [] OTHER -> Threw("Cannot yet handle this type of step")

\* Mutant of executeStepOnIndex: the sub-query of an existential condition
\* starts from the first fact of the path.
executeStepOnIndex_FromStart(edges, paths, step) ==
  CASE step.step = "property" /\ step.name = "type" ->
         Returned(SelectSeq(paths, LAMBDA path : startsWith(path[Len(path)], step.value)))
    [] step.step = "join" ->
         Returned(flatten([i \in 1..Len(paths) |->
           [j \in 1..Len(getAll(edges, step.direction, paths[i][Len(paths[i])],
                                step.role)) |->
              Append(paths[i], getAll(edges, step.direction, paths[i][Len(paths[i])],
                                      step.role)[j])]]))
    [] step.step = "existential" ->
         quantified(step.quantifier, paths,
           [i \in 1..Len(paths) |->
              executeQueryOnIndex(edges, Returned(<< << paths[i][1] >> >>), step.steps)])
    [] OTHER -> Threw("Cannot yet handle this type of step")

\* executeStep of the store.
executeStepOnIndex(edges, paths, step) ==
  CASE step.step = "property" /\ step.name = "type" ->
         Returned(SelectSeq(paths, LAMBDA path : startsWith(path[Len(path)], step.value)))
    [] step.step = "join" ->
         Returned(flatten([i \in 1..Len(paths) |->
           [j \in 1..Len(getAll(edges, step.direction, paths[i][Len(paths[i])],
                                step.role)) |->
              Append(paths[i], getAll(edges, step.direction, paths[i][Len(paths[i])],
                                      step.role)[j])]]))
    [] step.step = "existential" ->
         quantified(step.quantifier, paths,
           [i \in 1..Len(paths) |->
              executeQueryOnIndex(edges, Returned(<< << paths[i][Len(paths[i])] >> >>),
                                  step.steps)])
    [] OTHER -> Threw("Cannot yet handle this type of step")

\* paths.map(path => path.slice(1).map(keyToReference)).
toReferences(paths) ==
  IF paths.threw THEN [failed |-> TRUE, result |-> << >>]
  ELSE [failed |-> FALSE,
        result |-> [i \in 1..Len(paths.value) |->
                      [j \in 1..(Len(paths.value[i]) - 1) |->
                         keyToReference(paths.value[i][j + 1])]]]

\* IndexedDBStore.query over the edges the store holds.
query(edges, start, steps) ==
  toReferences(executeQueryOnIndex(edges, Returned(<< << factKey(start) >> >>), steps))

\* The last reference of each path of a result.
lastOf(paths) == [i \in 1..Len(paths) |-> paths[i][Len(paths[i])]]

\* The graphs the application saves: a fact with its ancestors, and a
\* completion without them.
Graphs ==
  { << FactL >>, << FactL2 >>, << FactL, FactT >>, << FactL, FactT2 >>,
    << FactL, FactT, FactC >>, << FactL, FactT2, FactC2 >>, << FactC2 >> }

\* The queries the application asks.
TasksInList == << Join("successor", "list"), PropertyCondition("type", "Task") >>

ListOfTask == << Join("predecessor", "list"), PropertyCondition("type", "List") >>

Completed == << Join("successor", "task"), PropertyCondition("type", "TaskComplete") >>

UncompletedTasksInList ==
  << Join("successor", "list"), ExistentialStep("NotExists", Completed) >>

CompletedTasksInList ==
  << Join("successor", "list"), ExistentialStep("Exists", Completed) >>

Queries ==
  { TasksInList, ListOfTask, UncompletedTasksInList, CompletedTasksInList,
    << Join("successor", "list") >>,
    << Join("successor", "list"), Join("successor", "task") >>,
    << Join("predecessor", "task"), Join("predecessor", "list") >>,
    << Join("predecessor", "task"), PropertyCondition("type", "Task"),
       Join("predecessor", "list"), PropertyCondition("type", "No Match") >>,
    << Join("predecessor", "task"), PropertyCondition("type", "No Match"),
       Join("predecessor", "list"), PropertyCondition("type", "List") >>,
    << Join("successor", "list"), PropertyCondition("description", "Take out the trash") >>,
    << Join("successor", "list"),
       ExistentialStep("Exists", << PropertyCondition("completed", "true") >>) >> }

QueryStarts == { Ref(f.type, f.hash) : f \in AllFacts }

\* The sub-queries of the existential conditions applied.
SubQueries ==
  { Completed, << Join("successor", "task") >>, << Join("predecessor", "list") >>,
    << Join("successor", "task"), PropertyCondition("completed", "true") >> }

\* The queries whose paths the conditions are applied to.
Prefixes == { << >>, << Join("successor", "list") >>, << Join("predecessor", "task") >> }

\* The tuples of references the evidence evaluator filters: a task, one of
\* its lists, and a user.
Tuple(list, user) ==
  [task |-> Ref(SharedTask.type, SharedTask.hash), list |-> list, user |-> user]

TupleLists ==
  { << Tuple(RefList1, RefU1) >>, << Tuple(RefList1, RefU1), Tuple(RefList2, RefU1) >>,
    << Tuple(RefList2, RefU2), Tuple(RefList1, RefU2) >>, << Tuple(RefList2, RefU3) >> }

\* The matches of the existential conditions of the evidence evaluator: the
\* list has an owner, the user owns the list, the list has an administrator.
SubMatches ==
  { << Match("owner", << PathCondition(<< >>, "list", << Role("owner", "User") >>) >>) >>,
    << Match("owner", << PathCondition(<< >>, "list", << Role("owner", "User") >>),
                         PathCondition(<< >>, "user", << >>) >>) >>,
    << Match("owner", << PathCondition(<< >>, "list", << Role("owner", "Admin") >>) >>) >> }

NoFilter ==
  [executor |-> "none", input |-> << >>, exists |-> Returned(<< >>),
   notExists |-> Returned(<< >>)]

\* The observer of the watch of the uncompleted tasks of list L: it holds
\* the results it has announced with added and not yet with removed.
NoObserver ==
  [watching |-> FALSE, initialized |-> FALSE, stopped |-> FALSE, current |-> {},
   added |-> [k \in Keys |-> 0], removed |-> [k \in Keys |-> 0]]

\* The results of the watched query over the edges.
watched(edges) == Range(lastOf(query(edges, RefL, UncompletedTasksInList).result))

\* The observer evaluates its query again: added for each result it does
\* not hold, removed for each result it holds that is no longer one.
\* Mutant of evaluated: the first pass takes the results as held without
\* announcing them.
evaluated_FirstPassSilent(o, results) ==
  [o EXCEPT
     !.watching = TRUE,
     !.current = results,
     !.added = [k \in Keys |->
                  IF o.watching /\ keyToReference(k) \in results \ o.current
                  THEN o.added[k] + 1
                  ELSE o.added[k]],
     !.removed = [k \in Keys |->
                    IF keyToReference(k) \in o.current \ results THEN o.removed[k] + 1
                    ELSE o.removed[k]]]

evaluated(o, results) ==
  [o EXCEPT
     !.watching = TRUE,
     !.current = results,
     !.added = [k \in Keys |->
                  IF keyToReference(k) \in results \ o.current THEN o.added[k] + 1
                  ELSE o.added[k]],
     !.removed = [k \in Keys |->
                    IF keyToReference(k) \in o.current \ results THEN o.removed[k] + 1
                    ELSE o.removed[k]]]

\* What a save that succeeded does to the observer: an observer that was
\* stopped is no longer notified.
notifiedOf(o, failed, edges) ==
  IF o.watching /\ ~o.stopped /\ ~failed THEN evaluated(o, watched(edges)) ELSE o


(***************************************************************************)
(* interface.ts: computeHash.  A fact is an object: the list of its        *)
(* members in the order they were set.  A string is the list of its        *)
(* character codes.                                                        *)
(***************************************************************************)
NoFraction == << 0, 0, 0, 0, 0, 0, 0, 0, 0, 0, 0, 0, 0, 0 >>

\* The values of typeof "string", "number", "boolean", "undefined" and
\* "object" (null, a Date, any other object).  A number is its integer part
\* and the hexadecimal digits of its fraction.
Text(codes) ==
  [kind |-> "string", text |-> codes, int |-> 0, frac |-> NoFraction, flag |-> FALSE,
   members |-> << >>]

Number(int, frac) ==
  [kind |-> "number", text |-> << >>, int |-> int, frac |-> frac, flag |-> FALSE,
   members |-> << >>]

Boolean(flag) ==
  [kind |-> "boolean", text |-> << >>, int |-> 0, frac |-> NoFraction, flag |-> flag,
   members |-> << >>]

Undefined ==
  [kind |-> "undefined", text |-> << >>, int |-> 0, frac |-> NoFraction, flag |-> FALSE,
   members |-> << >>]

Null ==
  [kind |-> "null", text |-> << >>, int |-> 0, frac |-> NoFraction, flag |-> FALSE,
   members |-> << >>]

DateOf(time) ==
  [kind |-> "date", text |-> << >>, int |-> time, frac |-> NoFraction, flag |-> FALSE,
   members |-> << >>]

Object(members) ==
  [kind |-> "object", text |-> << >>, int |-> 0, frac |-> NoFraction, flag |-> FALSE,
   members |-> members]

Member(name, value) == [name |-> name, value |-> value]

\* A number of the language is a double: MantissaBits significant bits.  It
\* is held here as a fixed-point number of IntBits bits before the point
\* and FracBits bits after it, in Limbs limbs of LimbBits bits, the most
\* significant first; bit 1 is the most significant bit.
MantissaBits == 53

IntBits == 31

FracBits == 56

LimbBits == 29

Limbs == 3

Width == Limbs * LimbBits

Limb == 2^LimbBits

Zero == << 0, 0, 0 >>

FromInt(n) == << n \div 4, (n % 4) * 2^27, 0 >>

\* The value of hexadecimal digits.
RECURSIVE hexValue(_, _)
hexValue(value, digits) ==
  IF digits = << >> THEN value ELSE hexValue(16 * value + Head(digits), Tail(digits))

FromNumber(int, frac) ==
  << int \div 4,
     (int % 4) * 2^27 + 8 * hexValue(0, SubSeq(frac, 1, 6)) + (frac[7] \div 2),
     (frac[7] % 2) * 2^28 + hexValue(0, SubSeq(frac, 8, 14)) >>

bit(x, i) == (x[((i - 1) \div LimbBits) + 1] \div 2^(LimbBits - 1 - ((i - 1) % LimbBits))) % 2

\* The sum of two numbers as a real number.
exactSum(a, b) ==
  << a[1] + b[1] + ((a[2] + b[2] + ((a[3] + b[3]) \div Limb)) \div Limb),
     (a[2] + b[2] + ((a[3] + b[3]) \div Limb)) % Limb,
     (a[3] + b[3]) % Limb >>

\* The first significant bit of a number, or 1 for zero.
leading(x) ==
  IF \A i \in 1..Width : bit(x, i) = 0 THEN 1
  ELSE CHOOSE i \in 1..Width : bit(x, i) = 1 /\ \A j \in 1..(i - 1) : bit(x, j) = 0

\* Limb k of a number with the bits after bit q cleared.
truncatedLimb(x, q, k) ==
  IF k * LimbBits <= q THEN x[k]
  ELSE IF (k - 1) * LimbBits >= q THEN 0
  ELSE x[k] - (x[k] % 2^(k * LimbBits - q))

truncated(x, q) == << truncatedLimb(x, q, 1), truncatedLimb(x, q, 2), truncatedLimb(x, q, 3) >>

\* Limb k of the unit of bit q.
unitLimb(q, k) ==
  IF (k - 1) * LimbBits < q /\ q <= k * LimbBits THEN 2^(k * LimbBits - q) ELSE 0

\* Round to nearest, ties to even, with bit q as the last bit kept.
roundedAt(x, q) ==
  IF q >= Width THEN x
  ELSE IF bit(x, q + 1) = 1 /\ (bit(x, q) = 1 \/ \E j \in (q + 2)..Width : bit(x, j) = 1)
  THEN exactSum(truncated(x, q), << unitLimb(q, 1), unitLimb(q, 2), unitLimb(q, 3) >>)
  ELSE truncated(x, q)

toDouble(x) == roundedAt(x, leading(x) + MantissaBits - 1)

\* a + b of two numbers.
plus(a, b) == toDouble(exactSum(a, b))

\* hash << 5: the shift works on the low 32 bits and gives a signed 32 bit
\* integer.
shiftLeft5(hash) ==
  IF hash % 2^27 >= 2^26 THEN ((hash % 2^27) - 2^27) * 32 ELSE (hash % 2^27) * 32

\* computeStringHash: the loop over the characters, hash being what it
\* holds before the character at the head of str.
RECURSIVE stringHashFrom(_, _)
stringHashFrom(hash, str) ==
  IF str = << >> THEN hash
  ELSE stringHashFrom(shiftLeft5(hash) - hash + Head(str), Tail(str))

computeStringHash(str) == IF str = << >> THEN 0 ELSE stringHashFrom(0, str)

RECURSIVE computeHash(_)
RECURSIVE computeMemberHash(_)
RECURSIVE sumFrom(_, _)

\* (nameHash << 5) - nameHash + valueHash.
memberHashOf(nameHash, valueHash) ==
  IF valueHash.threw THEN valueHash
  ELSE Returned(plus(FromInt(shiftLeft5(nameHash) - nameHash), valueHash.value))

\* computeMemberHash of a pair [name, value].
computeMemberHash(pair) ==
  memberHashOf(computeStringHash(pair.name),
    CASE pair.value.kind = "string" -> Returned(FromInt(computeStringHash(pair.value.text)))
      [] pair.value.kind = "number" -> Returned(FromNumber(pair.value.int, pair.value.frac))
      [] pair.value.kind = "date" -> Returned(FromInt(pair.value.int))
      [] pair.value.kind \in {"object", "null"} -> computeHash(pair.value)
      [] pair.value.kind = "boolean" -> Returned(FromInt(IF pair.value.flag THEN 1 ELSE 0))
      [] OTHER -> Threw("TypeError: Property is a " \o pair.value.kind))

\* total + hash, unless one of them is the TypeError.
accumulated(total, hash) ==
  IF hash.threw THEN hash ELSE Returned(plus(total.value, hash.value))

\* _.sum of the hashes of the members, in the order of the members.
sumFrom(total, pairs) ==
  IF total.threw \/ pairs = << >> THEN total
  ELSE sumFrom(accumulated(total, computeMemberHash(Head(pairs))), Tail(pairs))

\* computeHash of a fact; null has the hash 0.
computeHash(fact) ==
  IF fact.kind = "null" THEN Returned(Zero)
  ELSE sumFrom(Returned(Zero), fact.members)

\* isPredecessor: typeof value is "object" and value is not a Date.
isPredecessor(value) == value.kind \in {"object", "null"}

\* The strings of the facts hashed and sent.
TypeName == << 116, 121, 112, 101 >>

ListName == << 108, 105, 115, 116 >>

NameName == << 110, 97, 109, 101 >>

DoneName == << 100, 111, 110, 101 >>

DueName == << 100, 117, 101 >>

TaskName == << 116, 97, 115, 107 >>

XName == << 120 >>

YName == << 121 >>

ZName == << 122 >>

ListText == << 76, 105, 115, 116 >>

TaskText == << 84, 97, 115, 107 >>

FunText == << 70, 117, 110 >>

PointText == << 80, 111, 105, 110, 116 >>

\* The doubles nearest to 0.1, 0.2 and 0.3.
OneTenth == Number(0, << 1, 9, 9, 9, 9, 9, 9, 9, 9, 9, 9, 9, 9, 10 >>)

TwoTenths == Number(0, << 3, 3, 3, 3, 3, 3, 3, 3, 3, 3, 3, 3, 3, 4 >>)

ThreeTenths == Number(0, << 4, 12, 12, 12, 12, 12, 12, 12, 12, 12, 12, 12, 12, 12 >>)

\* The facts hashed and sent: a list, a task of the list, a task with a
\* rank, a point, a task without a list, a task with a member that was
\* never set, and the completion of a task.
FunList == Object(<< Member(TypeName, Text(ListText)), Member(NameName, Text(FunText)) >>)

FunTask ==
  Object(<< Member(TypeName, Text(TaskText)), Member(ListName, FunList),
            Member(DoneName, Boolean(TRUE)) >>)

RankedTask ==
  Object(<< Member(TypeName, Text(TaskText)), Member(ListName, FunList),
            Member(XName, Number(2, NoFraction)), Member(DueName, DateOf(86400)) >>)

Point ==
  Object(<< Member(TypeName, Text(PointText)), Member(XName, OneTenth),
            Member(YName, TwoTenths), Member(ZName, ThreeTenths) >>)

LooseTask ==
  Object(<< Member(TypeName, Text(TaskText)), Member(ListName, Null),
            Member(DoneName, Boolean(FALSE)) >>)

UnsetTask ==
  Object(<< Member(TypeName, Text(TaskText)), Member(ListName, FunList),
            Member(DueName, Undefined) >>)

Completion ==
  Object(<< Member(TypeName, Text(DoneName)), Member(TaskName, FunTask),
            Member(DoneName, Boolean(TRUE)) >>)

HashedFacts == { FunList, FunTask, RankedTask, Point, LooseTask, UnsetTask, Completion }

\* A copy of a fact built independently: the same members, set in another
\* order, and the members of its predecessors set in reverse when inner.
reversed(value) ==
  IF value.kind = "object"
  THEN Object([i \in 1..Len(value.members) |->
                 value.members[Len(value.members) + 1 - i]])
  ELSE value

permuted(fact, p, inner) ==
  Object([i \in 1..Len(fact.members) |->
            Member(fact.members[p[i]].name,
                   IF inner THEN reversed(fact.members[p[i]].value)
                   ELSE fact.members[p[i]].value)])

NoHash == [first |-> Null, second |-> Null, hashes |-> << >>]

(***************************************************************************)
(* unnamed/part_004: FactChannel.  The channel holds nextId; output is     *)
(* the list of the messages it has written.                                *)
(***************************************************************************)
\* A member of a memento: the FactReference of a predecessor, or the value.
Reference(name, id) == [name |-> name, reference |-> TRUE, id |-> id, value |-> Null]

Copied(name, value) == [name |-> name, reference |-> FALSE, id |-> 0, value |-> value]

\* JSON.stringify leaves out the members that are undefined.
stringify(memento) ==
  SelectSeq(memento, LAMBDA m : m.reference \/ m.value.kind # "undefined")

\* Mutant of emitted: nextId stays as it was.
emitted_NoIncrement(looped) ==
  [nextId |-> looped.nextId,
   output |-> Append(looped.output,
                     [type |-> "fact", id |-> looped.nextId,
                      fact |-> stringify(looped.memento)]),
   memento |-> << >>,
   reference |-> looped.nextId]

\* The end of sendFact: the message is written with nextId, which then
\* advances by two; the reference returned holds the id of the message.
emitted(looped) ==
  [nextId |-> looped.nextId + 2,
   output |-> Append(looped.output,
                     [type |-> "fact", id |-> looped.nextId,
                      fact |-> stringify(looped.memento)]),
   memento |-> << >>,
   reference |-> looped.nextId]

RECURSIVE sendFact(_, _)
RECURSIVE sendFields(_, _, _)

\* The loop of sendFact over the fields of the fact: looped is the channel
\* and the memento so far; a predecessor is sent and its reference kept.
sendFields(looped, memento, fields) ==
  IF fields = << >>
  THEN [nextId |-> looped.nextId, output |-> looped.output, memento |-> memento,
        reference |-> 0]
  ELSE IF isPredecessor(Head(fields).value)
  THEN sendFields(sendFact(looped, Head(fields).value),
                  Append(memento,
                         Reference(Head(fields).name,
                                   sendFact(looped, Head(fields).value).reference)),
                  Tail(fields))
  ELSE sendFields(looped, Append(memento, Copied(Head(fields).name, Head(fields).value)),
                  Tail(fields))

\* FactChannel.sendFact.
sendFact(looped, fact) == emitted(sendFields(looped, << >>, fact.members))

\* The facts given to sendFact: also a task of two lists, held in an array.
TwoLists ==
  Object(<< Member(TypeName, Text(TaskText)),
            Member(ListName, Object(<< Member(<< 48 >>, FunList),
                                       Member(<< 49 >>, FunList) >>)) >>)

SentFacts == { FunList, FunTask, LooseTask, UnsetTask, TwoLists }

\* The messages a channel writes in the cases.
MaxMessages == 6

NoChannel == [nextId |-> 1, output |-> << >>, memento |-> << >>, reference |-> 0]

(***************************************************************************)
(* interface.ts: the descriptive string of a query.  A string is the list  *)
(* of its characters.                                                      *)
(***************************************************************************)
\* The value of a PropertyCondition (value: any): a string or a boolean.
StringValue(text) == [type |-> "string", text |-> text, flag |-> FALSE]

BooleanValue(flag) == [type |-> "boolean", text |-> << >>, flag |-> flag]

\* new Join(direction, role) and new PropertyCondition(name, value).
JoinStep(direction, role) ==
  [step |-> "join", direction |-> direction, name |-> role, value |-> StringValue(<< >>)]

PropertyConditionStep(name, value) ==
  [step |-> "property", direction |-> "", name |-> name, value |-> value]

\* The conversion of a value to a string by "..." + value.
toText(value) ==
  IF value.type = "string" THEN value.text
  ELSE IF value.flag THEN << "t", "r", "u", "e" >>
  ELSE << "f", "a", "l", "s", "e" >>

\* Join.toDeclarativeString and PropertyCondition.toDeclarativeString.
toDeclarativeString(s) ==
  IF s.step = "join"
  THEN (IF s.direction = "predecessor" THEN << "P", "." >> ELSE << "S", "." >>) \o s.name
  ELSE << "F", "." >> \o s.name \o << "=", "\"" >> \o toText(s.value) \o << "\"" >>

\* Query.toDescriptiveString: the steps' strings joined by a space.
RECURSIVE toDescriptiveString(_)
toDescriptiveString(steps) ==
  IF steps = << >> THEN << >>
  ELSE IF Len(steps) = 1 THEN toDeclarativeString(steps[1])
  ELSE toDeclarativeString(steps[1]) \o << " " >> \o toDescriptiveString(Tail(steps))

Malformed == "Malformed descriptive string"

done(descriptive, index) == index = Len(descriptive)

\* The index counts from 0, as charAt does.
lookahead(descriptive, index) ==
  IF Len(descriptive) <= index THEN Threw(Malformed)
  ELSE Returned(descriptive[index + 1])

consume(descriptive, index, expected) ==
  IF lookahead(descriptive, index).threw THEN Threw(Malformed)
  ELSE IF lookahead(descriptive, index).value # expected THEN Threw(Malformed)
  ELSE Returned(index + 1)

\* Mutant of identifier: an identifier ends at a space only.
RECURSIVE identifier_UpToSpace(_, _, _)
identifier_UpToSpace(descriptive, index, id) ==
  IF /\ ~done(descriptive, index)
     /\ lookahead(descriptive, index).value # " "
  THEN identifier_UpToSpace(descriptive, index + 1,
                            Append(id, lookahead(descriptive, index).value))
  ELSE [id |-> id, index |-> index]

\* identifier: id is the identifier read so far.
RECURSIVE identifier(_, _, _)
identifier(descriptive, index, id) ==
  IF /\ ~done(descriptive, index)
     /\ lookahead(descriptive, index).value # " "
     /\ lookahead(descriptive, index).value # "="
  THEN identifier(descriptive, index + 1, Append(id, lookahead(descriptive, index).value))
  ELSE [id |-> id, index |-> index]

\* quotedValue, from the character after the opening quote on.
RECURSIVE quotedValueFrom(_, _, _)
quotedValueFrom(descriptive, index, value) ==
  IF lookahead(descriptive, index).threw THEN Threw(Malformed)
  ELSE IF lookahead(descriptive, index).value # "\""
  THEN quotedValueFrom(descriptive, index + 1,
                       Append(value, lookahead(descriptive, index).value))
  ELSE Returned([value |-> value, index |-> index + 1])

quotedValue(descriptive, index) ==
  IF consume(descriptive, index, "\"").threw THEN Threw(Malformed)
  ELSE quotedValueFrom(descriptive, index + 1, << >>)

\* fromDescriptiveString: the end of a turn of the loop, after a step.
RECURSIVE stepsFrom(_, _, _)
afterStep(descriptive, index, steps) ==
  IF done(descriptive, index) THEN Returned(steps)
  ELSE IF consume(descriptive, index, " ").threw THEN Threw(Malformed)
  ELSE stepsFrom(descriptive, index + 1, steps)

\* fromDescriptiveString: the condition read after "F".
condition(descriptive, index, steps) ==
  IF consume(descriptive, index, ".").threw THEN Threw(Malformed)
  ELSE IF consume(descriptive, identifier(descriptive, index + 1, << >>).index, "=").threw
  THEN Threw(Malformed)
  ELSE IF quotedValue(descriptive,
                      identifier(descriptive, index + 1, << >>).index + 1).threw
  THEN Threw(Malformed)
  ELSE afterStep(descriptive,
         quotedValue(descriptive,
                     identifier(descriptive, index + 1, << >>).index + 1).value.index,
         Append(steps, PropertyConditionStep(
           identifier(descriptive, index + 1, << >>).id,
           StringValue(quotedValue(descriptive,
             identifier(descriptive, index + 1, << >>).index + 1).value.value))))

\* fromDescriptiveString: the join read after "P" or "S".
join(descriptive, index, steps, direction) ==
  IF consume(descriptive, index, ".").threw THEN Threw(Malformed)
  ELSE afterStep(descriptive, identifier(descriptive, index + 1, << >>).index,
         Append(steps, JoinStep(direction, identifier(descriptive, index + 1, << >>).id)))

\* fromDescriptiveString: one turn of while (true), from the lookahead on.
stepsFrom(descriptive, index, steps) ==
  IF lookahead(descriptive, index).threw THEN Threw(Malformed)
  ELSE IF lookahead(descriptive, index).value = "P"
  THEN join(descriptive, index + 1, steps, "predecessor")
  ELSE IF lookahead(descriptive, index).value = "S"
  THEN join(descriptive, index + 1, steps, "successor")
  ELSE IF lookahead(descriptive, index).value = "F"
  THEN condition(descriptive, index + 1, steps)
  ELSE Threw(Malformed)

fromDescriptiveString(descriptive) ==
  IF done(descriptive, 0) THEN Returned(<< >>)
  ELSE stepsFrom(descriptive, 0, << >>)

\* The strings given to the parser: every string of up to MaxText of the
\* characters, and the strings of the tests and of the malformed cases.
MaxText == 5

Characters == {"P", "S", "F", ".", " ", "=", "\"", "a"}

TaskToList == << "P", ".", "t", " ", "F", ".", "t", "=", "\"", "T", "\"", " ",
                 "P", ".", "l" >>

NoMatch == << "F", ".", "t", "=", "\"", "N", "o", " ", "M", "\"" >>

Unterminated == << "F", ".", "t", "=", "\"", "T" >>

Unquoted == << "F", ".", "t", "=", "T" >>

Descriptives ==
  SeqsUpTo(Characters, MaxText) \cup {TaskToList, NoMatch, Unterminated, Unquoted}

\* The queries printed: up to MaxSteps joins and conditions, over names and
\* values with and without the characters that end them.
MaxSteps == 2

Names == {<< >>, << "a" >>, << "a", ".", "b" >>, << "a", " " >>, << "=", "a" >>}

Values == { StringValue(<< >>), StringValue(<< "a" >>), StringValue(<< "a", " ", "=" >>),
            StringValue(<< "a", "\"" >>), StringValue(<< "t", "r", "u", "e" >>),
            BooleanValue(TRUE), BooleanValue(FALSE) }

DescribedSteps ==
  { JoinStep(direction, role) : direction \in {"predecessor", "successor"}, role \in Names }
    \cup { PropertyConditionStep(name, value) : name \in Names, value \in Values }

DescribedQueries == SeqsUpTo(DescribedSteps, MaxSteps)

NoDescription ==
  [op |-> "none", descriptive |-> << >>, steps |-> << >>, parsed |-> Returned(<< >>)]

(***************************************************************************)
(* The operations.                                                         *)
(***************************************************************************)
Init ==
  /\ factStore = {}
  /\ ancestorStore = << >>
  /\ edgeStore = {}
  /\ factWrites = [k \in Keys |-> 0]
  /\ lastCall = NoCall
  /\ returned = [k \in Keys |-> 0]
  /\ refCount = 0
  /\ bookmark = 0
  /\ resolved = FALSE
  /\ disconnect = 0
  /\ timer = 0
  /\ storedBookmark = 0
  /\ conns = << >>
  /\ timers = << >>
  /\ handlers = << >>
  /\ starts = << >>
  /\ lastRef = [op |-> "none", before |-> 0, result |-> FALSE]
  /\ held = 0
  /\ exceeded = FALSE
  /\ errors = 0
  /\ http = NoHttp
  /\ stream = NoStream
  /\ rulesByType = NoRules
  /\ authz = NoAuthorization
  /\ observer = NoObserver
  /\ filtered = NoFilter
  /\ hashed = NoHash
  /\ channel = NoChannel
  /\ sent = Null
  /\ described = NoDescription

\* IndexedDBStore.save, called by the application.
Save ==
  /\ \E envelopes \in Batches : CallSave(envelopes)
  /\ UNCHANGED <<subscriberVars, otherVars>>

\* IndexedDBStore.load, called by the application.
Load ==
  /\ \E references \in SeqsUpTo(Refs, MaxLoad) :
       \E out \in {load(references)} :
          lastCall' = [op |-> "load", input |-> references, failed |-> out.failed,
                       result |-> out.result]
  /\ UNCHANGED <<otherVars, storeVars, returned, subscriberVars>>

\* An observer acquires the subscriber; the first acquisition calls start(),
\* which runs up to its await of store.loadBookmark.
AddRef ==
  /\ refCount < MaxRefs
  /\ refCount' = addRef.count
  /\ lastRef' = [op |-> "addRef", before |-> refCount, result |-> addRef.result]
  /\ held' = held + 1
  /\ IF addRef.result
     THEN /\ Len(starts) < MaxStarts
          /\ starts' = Append(starts, [pc |-> "loadBookmark", promise |-> "none",
                                       calls |-> 0, errors |-> 0])
     ELSE UNCHANGED starts
  /\ UNCHANGED <<otherVars, storeVars, lastCall, returned, bookmark, resolved, disconnect, timer,
                 storedBookmark, conns, timers, handlers, exceeded, errors>>

\* An observer releases the subscriber; the last release calls stop().
Release ==
  /\ refCount > -MaxExcess
  /\ refCount' = release.count
  /\ lastRef' = [op |-> "release", before |-> refCount, result |-> release.result]
  /\ held' = held - 1
  /\ exceeded' = (exceeded \/ held - 1 < 0)
  /\ IF release.result
     THEN Stop
     ELSE UNCHANGED <<timers, timer, conns, disconnect>>
  /\ UNCHANGED <<otherVars, storeVars, lastCall, returned, bookmark, resolved, storedBookmark,
                 handlers, starts, errors>>

\* Subscriber.start, from the return of store.loadBookmark on: the promise
\* is made, the feed is connected and the interval is set.
StartConnect(s) ==
  /\ starts[s].pc = "loadBookmark"
  /\ Len(conns) < MaxConns
  /\ bookmark' = storedBookmark
  /\ resolved' = FALSE
  /\ conns' = Append(conns, Connection(s, storedBookmark))
  /\ disconnect' = Len(conns) + 1
  /\ timers' = Append(timers, [active |-> TRUE, start |-> s])
  /\ timer' = Len(timers) + 1
  /\ starts' = [starts EXCEPT ![s].pc = "awaiting", ![s].promise = "pending"]
  /\ UNCHANGED <<otherVars, storeVars, lastCall, returned, refCount, storedBookmark, handlers,
                 lastRef, held, exceeded, errors>>

\* Subscriber.start: the interval fires and recycles the connection.
Recycle(t) ==
  /\ timers[t].active
  /\ Len(conns) < MaxConns
  /\ conns' = Append(Disconnected, Connection(timers[t].start, bookmark))
  /\ disconnect' = Len(conns) + 1
  /\ UNCHANGED <<otherVars, storeVars, lastCall, returned, refCount, bookmark, resolved, timer,
                 storedBookmark, timers, handlers, starts, lastRef, held, exceeded, errors>>

\* The stream of connection c delivers an event: the response handler is
\* called, not awaited, and runs up to its await of store.whichExist.
Deliver(c, factReferences) ==
  /\ conns[c].open
  /\ ~conns[c].settled
  /\ Len(handlers) < MaxEvents
  /\ handlers' = Append(handlers,
       [conn |-> c, start |-> conns[c].start, references |-> factReferences,
        nextBookmark |-> Len(handlers) + 1, pc |-> "whichExist",
        known |-> <<>>, asked |-> <<>>, loads |-> 0, graph |-> <<>>,
        saved |-> FALSE, bookmarked |-> FALSE, notified |-> FALSE])
  /\ UNCHANGED <<otherVars, storeVars, lastCall, returned, refCount, bookmark, resolved, disconnect,
                 timer, storedBookmark, conns, timers, starts, lastRef, held, exceeded,
                 errors>>

\* The handler of event h, from the return of store.whichExist on: with
\* unknown references it calls network.load, without it ends.
HandlerWhichExist(h) ==
  /\ handlers[h].pc = "whichExist"
  /\ LET knownFactReferences   == whichExist(handlers[h].references)
         unknownFactReferences == unknownOf(handlers[h].references, knownFactReferences)
     IN IF Len(unknownFactReferences) > 0
        THEN /\ handlers' = [handlers EXCEPT ![h].pc = "load",
                                             ![h].known = knownFactReferences,
                                             ![h].asked = unknownFactReferences,
                                             ![h].loads = @ + 1]
             /\ UNCHANGED <<resolved, starts>>
        ELSE /\ HandlerEnd(h)
             /\ handlers' = [handlers EXCEPT ![h].pc = "done",
                                             ![h].known = knownFactReferences]
  /\ UNCHANGED <<otherVars, storeVars, lastCall, returned, refCount, bookmark, disconnect, timer,
                 storedBookmark, conns, timers, lastRef, held, exceeded, errors>>

\* The handler of event h, from the return of network.load on: it calls
\* store.save with the graph.
HandlerLoad(h) ==
  /\ handlers[h].pc = "load"
  /\ handlers' = [handlers EXCEPT ![h].pc = "save",
                                  ![h].graph = networkLoad(handlers[h].asked)]
  /\ UNCHANGED <<otherVars, storeVars, lastCall, returned, refCount, bookmark, resolved, disconnect,
                 timer, storedBookmark, conns, timers, starts, lastRef, held, exceeded,
                 errors>>

\* The stream promise of connection c is rejected: getStream's catch calls
\* onError, once per connection.
StreamRejected(c) ==
  IF conns[c].settled
  THEN UNCHANGED <<conns, resolved, starts>>
  ELSE /\ conns' = [conns EXCEPT ![c].settled = TRUE]
       /\ ErrorCallback(conns[c].start)

\* The handler of event h, when store.save has run: a save that succeeded
\* is followed by the call of store.saveBookmark, a save that failed
\* rejects the handler.
HandlerSave(h) ==
  /\ handlers[h].pc = "save"
  /\ CallSave(handlers[h].graph)
  /\ IF lastCall'.failed
     THEN /\ handlers' = [handlers EXCEPT ![h].pc = "failed"]
          /\ StreamRejected(handlers[h].conn)
     ELSE /\ handlers' = [handlers EXCEPT ![h].pc = "saveBookmark", ![h].saved = TRUE]
          /\ UNCHANGED <<conns, resolved, starts>>
  /\ UNCHANGED <<otherVars, refCount, bookmark, disconnect, timer, storedBookmark, timers,
                 lastRef, held, exceeded, errors>>

\* The handler of event h, from the return of store.saveBookmark on: the
\* field is set and notifyFactsAdded is called with the graph.
HandlerSaveBookmark(h) ==
  /\ handlers[h].pc = "saveBookmark"
  /\ storedBookmark' = handlers[h].nextBookmark
  /\ bookmark' = handlers[h].nextBookmark
  /\ handlers' = [handlers EXCEPT ![h].pc = "notify", ![h].bookmarked = TRUE,
                                  ![h].notified = TRUE]
  /\ UNCHANGED <<otherVars, storeVars, lastCall, returned, refCount, resolved, disconnect, timer,
                 conns, timers, starts, lastRef, held, exceeded, errors>>

\* The handler of event h, from the return of notifyFactsAdded on.
HandlerNotify(h) ==
  /\ handlers[h].pc = "notify"
  /\ handlers' = [handlers EXCEPT ![h].pc = "done"]
  /\ HandlerEnd(h)
  /\ UNCHANGED <<otherVars, storeVars, lastCall, returned, refCount, bookmark, disconnect, timer,
                 storedBookmark, conns, timers, lastRef, held, exceeded, errors>>

\* A call the handler of event h awaits is rejected (storage or network
\* failed): the handler's promise is rejected.
HandlerReject(h) ==
  /\ handlers[h].pc \in {"whichExist", "load", "save", "saveBookmark", "notify"}
  /\ errors < MaxErrors
  /\ errors' = errors + 1
  /\ handlers' = [handlers EXCEPT ![h].pc = "failed"]
  /\ StreamRejected(handlers[h].conn)
  /\ UNCHANGED <<otherVars, storeVars, lastCall, returned, refCount, bookmark, disconnect, timer,
                 storedBookmark, timers, lastRef, held, exceeded>>

\* The stream of connection c fails (the request, the response or a line
\* that is no JSON): onError is called.  A line that is no JSON does not
\* end the stream.
StreamError(c, fatal) ==
  /\ ~conns[c].settled
  /\ fatal \/ conns[c].open
  /\ errors < MaxErrors
  /\ errors' = errors + 1
  /\ conns' = [conns EXCEPT ![c].settled = fatal]
  /\ ErrorCallback(conns[c].start)
  /\ UNCHANGED <<otherVars, storeVars, lastCall, returned, refCount, bookmark, disconnect, timer,
                 storedBookmark, timers, handlers, lastRef, held, exceeded>>

\* post or get is called: getHeaders, then the first request is sent.  The
\* definition and the transport are those of every call of the run.
StartCall(op, definition, transport, reauthenticates) ==
  /\ http.pc \in {"idle", "done", "pending"}
  /\ http.definition \in {0, definition}
  /\ http.transport \in {"", transport}
  /\ http' = [NoHttp EXCEPT !.definition = definition, !.transport = transport,
                            !.op = op, !.pc = "request",
                            !.reauthenticates = reauthenticates,
                            !.requests = <<[headers |-> 0]>>]
  /\ UNCHANGED <<storeVars, lastCall, returned, subscriberVars, stream, authorizationVars,
                 observerVars, codecVars>>

\* FetchConnection.post, up to its await of httpPost.
Post ==
  \E definition \in {1, 2} : \E transport \in Transports(definition) :
    \E reauthenticates \in BOOLEAN : StartCall("post", definition, transport, reauthenticates)

\* FetchConnection.get, up to its await of httpGet.
Get ==
  \E definition \in {1, 2} : \E transport \in Transports(definition) :
    \E reauthenticates \in BOOLEAN : StartCall("get", definition, transport, reauthenticates)

\* The network answers the request (or fails, or never answers): httpPost
\* or httpGet settles its promise or leaves it pending, and post or get
\* runs on to reauthenticate() or to its end.
HttpRespond(event) ==
  /\ http.pc = "request"
  /\ LET response == IF http.op = "post" THEN httpPost(http.transport, event)
                     ELSE httpGet(http.definition, event)
     IN http' =
          IF ~response.settled
          THEN [http EXCEPT !.pc = "pending", !.events = Append(@, event)]
          ELSE IF isReauthenticate(response.statusCode) /\ Len(http.requests) = 1
          THEN [http EXCEPT !.pc = "reauthenticate", !.events = Append(@, event),
                            !.responses = Append(@, response)]
          ELSE [http EXCEPT !.pc = "done", !.events = Append(@, event),
                            !.responses = Append(@, response),
                            !.outcome = outcomeOf(http.op, response)]
  /\ UNCHANGED <<storeVars, lastCall, returned, subscriberVars, stream, authorizationVars,
                 observerVars, codecVars>>

\* reauthenticate() returns: with true the headers are fetched again and
\* the request is repeated, with false the first response stands.
Reauthenticate ==
  /\ http.pc = "reauthenticate"
  /\ http' =
       IF http.reauthenticates
       THEN [http EXCEPT !.pc = "request", !.reauthenticated = @ + 1,
                         !.credentials = @ + 1,
                         !.requests = Append(@, [headers |-> http.credentials + 1])]
       ELSE [http EXCEPT !.pc = "done",
                         !.outcome = outcomeOf(http.op, http.responses[Len(http.responses)])]
  /\ UNCHANGED <<storeVars, lastCall, returned, subscriberVars, stream, authorizationVars,
                 observerVars, codecVars>>

\* FetchConnection.getStream: the request is answered with a body and the
\* one reader.read() is placed.  strict tells whether the decoder checks the
\* type of its argument.
GetStream(lines, strict) ==
  /\ stream.pc = "idle"
  /\ stream' = [NoStream EXCEPT !.pc = "reading", !.lines = lines, !.strict = strict,
                                !.reads = 1]
  /\ UNCHANGED <<storeVars, lastCall, returned, subscriberVars, http, authorizationVars,
                 observerVars, codecVars>>

\* The network hands over the next size bytes of the body as one chunk.
ServerSend(size) ==
  /\ stream.pc # "idle"
  /\ ~stream.closed
  /\ stream.sent + size <= Len(encoded(stream.lines))
  /\ stream' = [stream EXCEPT
                  !.sent = @ + size,
                  !.chunks = Append(@, SubSeq(encoded(stream.lines), stream.sent + 1,
                                              stream.sent + size))]
  /\ UNCHANGED <<storeVars, lastCall, returned, subscriberVars, http, authorizationVars,
                 observerVars, codecVars>>

\* The server ends the body after its last line.
ServerEnd ==
  /\ stream.pc # "idle"
  /\ ~stream.closed
  /\ ~stream.ended
  /\ stream.sent = Len(encoded(stream.lines))
  /\ stream' = [stream EXCEPT !.ended = TRUE]
  /\ UNCHANGED <<storeVars, lastCall, returned, subscriberVars, http, authorizationVars,
                 observerVars, codecVars>>

\* The pending reader.read() settles and processChunk runs.
ReadSettles ==
  /\ stream.reads = 1
  /\ stream.chunks # << >> \/ stream.ended
  /\ stream' =
       IF stream.chunks # << >>
       THEN processChunk([stream EXCEPT !.chunks = Tail(@)],
                         ReadResult(FALSE, Head(stream.chunks)))
       ELSE processChunk(stream, ReadResult(TRUE, << >>))
  /\ UNCHANGED <<storeVars, lastCall, returned, subscriberVars, http, authorizationVars,
                 observerVars, codecVars>>

\* The client calls the function getStream returned.  closed is not
\* declared: in strict mode the assignment throws and nothing is aborted;
\* otherwise the request is aborted, and a pending read rejects into the
\* catch that calls onError.
CloseStream(throws) ==
  /\ stream.pc # "idle"
  /\ ~stream.closed
  /\ stream' = IF throws THEN [stream EXCEPT !.closeThrew = TRUE]
               ELSE [stream EXCEPT !.closed = TRUE, !.reads = 0,
                                   !.errors = IF stream.reads = 1 THEN @ + 1 ELSE @,
                                   !.pc = IF stream.reads = 1 THEN "failed" ELSE @]
  /\ UNCHANGED <<storeVars, lastCall, returned, subscriberVars, http, authorizationVars,
                 observerVars, codecVars>>

Next == Save \/ Load

Spec == Init /\ [][Next]_vars

\* Several observers share the subscriber: acquisitions and releases in any
\* order, with the start, stop and recycling they cause.
RefCountNext ==
  \/ AddRef
  \/ Release
  \/ \E s \in 1..Len(starts) : StartConnect(s)
  \/ \E t \in 1..Len(timers) : Recycle(t)

RefCountSpec == Init /\ [][RefCountNext]_vars

\* One observer subscribes and unsubscribes while the feed streams.
Subscribe == refCount = 0 /\ AddRef

Unsubscribe == refCount = 1 /\ Release

SubscriberNext ==
  \/ Subscribe
  \/ Unsubscribe
  \/ \E s \in 1..Len(starts) : StartConnect(s)
  \/ \E t \in 1..Len(timers) : Recycle(t)
  \/ \E c \in 1..Len(conns) : \E refs \in EventReferences : Deliver(c, refs)
  \/ \E h \in 1..Len(handlers) : HandlerWhichExist(h)
  \/ \E h \in 1..Len(handlers) : HandlerLoad(h)
  \/ \E h \in 1..Len(handlers) : HandlerSave(h)
  \/ \E h \in 1..Len(handlers) : HandlerSaveBookmark(h)
  \/ \E h \in 1..Len(handlers) : HandlerNotify(h)
  \/ \E h \in 1..Len(handlers) : HandlerReject(h)
  \/ \E c \in 1..Len(conns) : \E fatal \in BOOLEAN : StreamError(c, fatal)

SubscriberSpec == Init /\ [][SubscriberNext]_vars

\* Calls of post and get, one after the other, and what the network answers.
(***************************************************************************)
(* Queries: the application saves graphs, asks queries and watches the     *)
(* uncompleted tasks of list L.                                            *)
(***************************************************************************)
\* IndexedDBStore.save of a graph; the observer is notified afterwards.
SaveGraph(graph) ==
  /\ CallSave(graph)
  /\ observer' = notifiedOf(observer, save(graph).failed, save(graph).edge)
  /\ UNCHANGED <<subscriberVars, fetchVars, authorizationVars, filtered, codecVars>>

\* IndexedDBStore.query.
Query(start, steps) ==
  /\ lastCall' = [op |-> "query", input |-> << start, steps >>,
                  failed |-> query(edgeStore, start, steps).failed,
                  result |-> query(edgeStore, start, steps).result]
  /\ UNCHANGED <<storeVars, returned, subscriberVars, otherVars>>

\* The watch starts: its first pass announces the results the store holds.
Watch ==
  /\ ~observer.watching
  /\ observer' = evaluated(observer, watched(edgeStore))
  /\ UNCHANGED <<storeVars, lastCall, returned, subscriberVars, fetchVars,
                 authorizationVars, filtered, codecVars>>

\* observer.initialized() resolves: the first pass has completed.
Initialized ==
  /\ observer.watching
  /\ ~observer.initialized
  /\ observer' = [observer EXCEPT !.initialized = TRUE]
  /\ UNCHANGED <<storeVars, lastCall, returned, subscriberVars, fetchVars,
                 authorizationVars, filtered, codecVars>>

\* observer.stop().
StopObserver ==
  /\ observer.watching
  /\ ~observer.stopped
  /\ observer' = [observer EXCEPT !.stopped = TRUE]
  /\ UNCHANGED <<storeVars, lastCall, returned, subscriberVars, fetchVars,
                 authorizationVars, filtered, codecVars>>

QueryNext ==
  \/ \E graph \in Graphs : SaveGraph(graph)
  \/ \E start \in QueryStarts, steps \in Queries : Query(start, steps)
  \/ Watch

QuerySpec == Init /\ [][QueryNext]_vars

\* The life of one observer: graphs are saved before it starts, while it
\* watches and after it was stopped.
WatchNext ==
  \/ \E graph \in Graphs : SaveGraph(graph)
  \/ Watch
  \/ Initialized
  \/ StopObserver

WatchSpec == Init /\ [][WatchNext]_vars

(***************************************************************************)
(* Existential conditions: the store and the evidence evaluator apply a    *)
(* condition to the same input under either quantifier.                    *)
(***************************************************************************)
\* executeStep of the store, on the paths of a query.
ExecuteStep(paths, steps) ==
  /\ ~paths.threw
  /\ filtered' = [executor |-> "store", input |-> paths.value,
                  exists |-> executeStepOnIndex(edgeStore, paths.value,
                                                ExistentialStep("Exists", steps)),
                  notExists |-> executeStepOnIndex(edgeStore, paths.value,
                                                   ExistentialStep("NotExists", steps))]
  /\ UNCHANGED <<storeVars, lastCall, returned, subscriberVars, fetchVars,
                 authorizationVars, observer, codecVars>>

\* Evidence.filterByCondition, on the tuples of a match.
FilterByCondition(results, matches) ==
  /\ filtered' = [executor |-> "evidence", input |-> results,
                  exists |-> filterByCondition(EvidenceFacts, results[1], "list", results,
                                               ExistentialCondition(TRUE, matches)),
                  notExists |-> filterByCondition(EvidenceFacts, results[1], "list", results,
                                                  ExistentialCondition(FALSE, matches))]
  /\ UNCHANGED <<storeVars, lastCall, returned, subscriberVars, fetchVars,
                 authorizationVars, observer, codecVars>>

ExistentialNext ==
  \/ \E graph \in Graphs : SaveGraph(graph)
  \/ \E start \in QueryStarts, prefix \in Prefixes, steps \in SubQueries :
        ExecuteStep(executeQueryOnIndex(edgeStore, Returned(<< << factKey(start) >> >>),
                                        prefix), steps)
  \/ \E results \in TupleLists, matches \in SubMatches : FilterByCondition(results, matches)

ExistentialSpec == Init /\ [][ExistentialNext]_vars

(***************************************************************************)
(* Hashing: two copies of a fact, built independently, are hashed; each    *)
(* behaviour hashes one pair.                                              *)
(***************************************************************************)
ComputeHash(first, second) ==
  /\ hashed = NoHash
  /\ hashed' = [first |-> first, second |-> second,
                hashes |-> << computeHash(first), computeHash(second) >>]
  /\ UNCHANGED <<storeVars, lastCall, returned, subscriberVars, fetchVars,
                 authorizationVars, observerVars, channel, sent, described>>

HashNext ==
  \E fact \in HashedFacts, inner \in BOOLEAN :
     \E p \in Permutations(1..Len(fact.members)) :
        ComputeHash(fact, permuted(fact, p, inner))

HashSpec == Init /\ [][HashNext]_vars

(***************************************************************************)
(* The fact channel: facts are sent one after the other.                   *)
(***************************************************************************)
SendFact(fact) ==
  /\ Len(channel.output) < MaxMessages
  /\ channel' = sendFact(channel, fact)
  /\ sent' = fact
  /\ UNCHANGED <<storeVars, lastCall, returned, subscriberVars, fetchVars,
                 authorizationVars, observerVars, hashed, described>>

ChannelNext == \E fact \in SentFacts : SendFact(fact)

ChannelSpec == Init /\ [][ChannelNext]_vars

(***************************************************************************)
(* Descriptive strings: a string is parsed and the query printed again, or *)
(* a query is printed and the string parsed again.  A behaviour does one   *)
(* of the two.                                                             *)
(***************************************************************************)
\* fromDescriptiveString(descriptive), and toDescriptiveString of the query
\* it returns.
FromDescriptiveString(descriptive) ==
  /\ described = NoDescription
  /\ described' = [op |-> "parse", descriptive |-> descriptive,
                   steps |-> fromDescriptiveString(descriptive).value,
                   parsed |-> fromDescriptiveString(descriptive)]
  /\ UNCHANGED <<storeVars, lastCall, returned, subscriberVars, fetchVars,
                 authorizationVars, observerVars, hashed, channel, sent>>

\* new Query(steps).toDescriptiveString(), and fromDescriptiveString of the
\* string it returns.
ToDescriptiveString(steps) ==
  /\ described = NoDescription
  /\ described' = [op |-> "print", descriptive |-> toDescriptiveString(steps),
                   steps |-> steps,
                   parsed |-> fromDescriptiveString(toDescriptiveString(steps))]
  /\ UNCHANGED <<storeVars, lastCall, returned, subscriberVars, fetchVars,
                 authorizationVars, observerVars, hashed, channel, sent>>

DescriptiveNext ==
  /\ described = NoDescription
  /\ \/ \E descriptive \in Descriptives : FromDescriptiveString(descriptive)
     \/ \E steps \in DescribedQueries : ToDescriptiveString(steps)

DescriptiveSpec == Init /\ [][DescriptiveNext]_vars

FetchNext ==
  \/ Post
  \/ Get
  \/ \E event \in NetworkEvents : HttpRespond(event)
  \/ Reauthenticate

FetchSpec == Init /\ [][FetchNext]_vars

\* One feed stream: the server writes, the network chunks, the reader
\* reads, the client may close.
StreamNext ==
  \/ \E lines \in FeedLines : \E strict \in BOOLEAN : GetStream(lines, strict)
  \/ \E size \in 1..MaxChunk : ServerSend(size)
  \/ ServerEnd
  \/ ReadSettles
  \/ \E throws \in BOOLEAN : CloseStream(throws)

StreamSpec == Init /\ [][StreamNext]_vars

(***************************************************************************)
(* AuthorizationRules: the rules are registered one at a time, each        *)
(* registration giving the rules that the next call works on, and          *)
(* isAuthorized is asked about a fact, a user and the evidence.            *)
(***************************************************************************)
Registered(op, type, argument, rule) ==
  /\ Len(rulesByType[type]) < MaxRules
  /\ rulesByType' = IF rule.threw THEN rulesByType
                    ELSE withRule(rulesByType, type, rule.value)
  /\ authz' = [NoAuthorization EXCEPT !.op = op, !.type = type,
                 !.argument = argument, !.threw = rule.threw]
  /\ UNCHANGED <<storeVars, lastCall, returned, subscriberVars, fetchVars, observerVars,
                 codecVars>>

any(type) == Registered("any", type, NoArgument, Returned(AuthorizationRuleAny))

no(type) == Registered("no", type, NoArgument, Returned(AuthorizationRuleNone))

Type(type, argument) == Registered("type", type, argument, typeRule(argument))

\* The record of a call of isAuthorized and of what it gave.
Call(userFact, fact, factRecords, storeAnswer, given) ==
  [NoAuthorization EXCEPT !.op = "isAuthorized", !.type = fact.type,
     !.userFact = userFact, !.fact = fact, !.factRecords = factRecords,
     !.storeAnswer = storeAnswer, !.threw = given.threw, !.result = given.result,
     !.answers = given.answers]

IsAuthorized(userFact, fact, factRecords, storeAnswer) ==
  /\ fact \in factRecords
  /\ authz' = Call(userFact, fact, factRecords, storeAnswer,
                   isAuthorized(rulesByType, userFact, fact, factRecords, storeAnswer))
  /\ UNCHANGED <<rulesByType, storeVars, lastCall, returned, subscriberVars, fetchVars,
                  observerVars, codecVars>>

AuthorizationNext ==
  \/ \E type \in RegisteredTypes : any(type)
  \/ \E type \in RegisteredTypes : no(type)
  \/ \E type \in RegisteredTypes : \E argument \in Arguments : Type(type, argument)
  \/ \E userFact \in UserFacts, fact \in {SharedTask, OwnedList1},
        factRecords \in SUBSET EvidenceFacts, storeAnswer \in StoreAnswers :
       IsAuthorized(userFact, fact, factRecords, storeAnswer)

AuthorizationSpec == Init /\ [][AuthorizationNext]_vars

(***************************************************************************)
(* Properties of the store.                                                *)
(***************************************************************************)
BatchKeys(envelopes) == { factKey(envelopes[i]) : i \in 1..Len(envelopes) }

PredecessorKeys(key) == Range(allPredecessors(FactOfKey(key)))

\* ancestors(f) = {f} united with the ancestors of each predecessor of f.
RECURSIVE Ancestors(_)
Ancestors(key) == {key} \cup UNION { Ancestors(p) : p \in PredecessorKeys(key) }

NoDuplicates(s) == Cardinality(Range(s)) = Len(s)

\* C1: save is idempotent on (type, hash).  A stored record is written
\* once and never again, every key is returned as newly written by at most
\* one save call (the call that stored it), and a save call returns no key
\* twice.
C1_SaveIdempotent ==
  /\ \A k \in Keys : /\ factWrites[k] <= 1
                     /\ returned[k] <= 1
                     /\ (k \in factStore <=> factWrites[k] = 1)
                     /\ (k \in factStore <=> returned[k] = 1)
  /\ lastCall.op = "save" => /\ NoDuplicates(lastCall.result)
                             /\ Range(lastCall.result) \subseteq factStore

\* The second save([L]) has returned nothing; the first returned L.
C1_Witness ==
  /\ lastCall.op = "save"
  /\ lastCall.input = <<FactL>>
  /\ ~lastCall.failed
  /\ lastCall.result = <<>>
  /\ returned[factKey(FactL)] = 1

\* C2: DAG closure under save.  Every predecessor of a stored fact is
\* stored; a save stores a fact only if each of its predecessors was in
\* storage or is in the batch; a batch with a predecessor that is in
\* neither is rejected and nothing is written.
C2_Closed == \A k \in factStore : PredecessorKeys(k) \subseteq factStore

C2_SaveStep ==
  lastCall'.op = "save" =>
    LET batch     == BatchKeys(lastCall'.input)
        available == factStore \cup batch
    IN /\ \A k \in factStore' \ factStore : PredecessorKeys(k) \subseteq available
       /\ (\E k \in batch : ~(PredecessorKeys(k) \subseteq available))
             => lastCall'.failed /\ lastCall'.result = <<>> /\ storeVars' = storeVars

C3_LoadAncestors ==
  (lastCall.op = "load" /\ \A i \in 1..Len(lastCall.input) :
                               factKey(lastCall.input[i]) \in factStore)
    => /\ ~lastCall.failed
       /\ NoDuplicates(lastCall.result)
       /\ Range(lastCall.result)
            = UNION { Ancestors(factKey(lastCall.input[i])) : i \in 1..Len(lastCall.input) }

\* Two stored references with common ancestors have been loaded.
C3_Witness ==
  /\ lastCall.op = "load"
  /\ lastCall.input = <<RefT, RefC>>
  /\ ~lastCall.failed
  /\ Len(lastCall.result) = 3

\* C4: the edge store holds exactly the (successor, predecessor, role)
\* triples the stored facts declare.
C4_EdgesMatchFacts ==
  edgeStore = UNION { Range(EdgesOf(FactOfKey(k))) : k \in factStore }

\* A fact with two edges has been saved again.
C4_Witness ==
  /\ lastCall.op = "save"
  /\ FactC \in Range(lastCall.input)
  /\ ~lastCall.failed
  /\ lastCall.result = <<>>
  /\ Cardinality(edgeStore) = 3

\* The batch of the last save holds the same fact more than once, and holds
\* the predecessors of its facts.
DuplicateSaved ==
  /\ lastCall.op = "save"
  /\ ~NoDuplicates([i \in 1..Len(lastCall.input) |-> factKey(lastCall.input[i])])
  /\ ~findAllAncestors(lastCall.input).threw

\* C37: a save of a batch that holds the same fact more than once does not
\* fail, leaves every fact of the batch stored with its ancestor entry and
\* its edges, each once, and returns no fact twice.
C37_DuplicateInBatch ==
  DuplicateSaved =>
    /\ ~lastCall.failed
    /\ NoDuplicates(lastCall.result)
    /\ \A k \in BatchKeys(lastCall.input) :
         /\ k \in factStore /\ factWrites[k] = 1
         /\ k \in DOMAIN ancestorStore
         /\ Range(EdgesOf(FactOfKey(k))) \subseteq edgeStore

(***************************************************************************)
(* Properties of the subscriber.                                           *)
(***************************************************************************)
GraphKeys(h) == BatchKeys(handlers[h].graph)

\* The first stream event delivered for start() call s, or 0.
FirstEvent(s) ==
  LET mine == { h \in 1..Len(handlers) : handlers[h].start = s }
  IN IF mine = {} THEN 0 ELSE CHOOSE h \in mine : \A g \in mine : h <= g

\* C5: reference counting.  addRef returns true exactly when the count
\* goes from 0 to 1, release returns true exactly when it goes from 1 to 0,
\* and while releases have not exceeded acquisitions the count is the
\* number of references held and is not negative.
C5_RefCount ==
  /\ lastRef.op = "addRef"
       => /\ refCount = lastRef.before + 1
          /\ lastRef.result <=> (lastRef.before = 0 /\ refCount = 1)
  /\ lastRef.op = "release"
       => /\ refCount = lastRef.before - 1
          /\ lastRef.result <=> (lastRef.before = 1 /\ refCount = 0)
  /\ ~exceeded => refCount = held /\ refCount >= 0

\* The last of two references has been released.
C5_Witness ==
  /\ lastRef.op = "release"
  /\ lastRef.result
  /\ refCount = 0
  /\ ~exceeded
  /\ Len(starts) = 1
  /\ Len(conns) = 2

\* C6: the steps of a stream event's handler come in order.  At most one
\* network load, asking for exactly the references store.whichExist did not
\* return and for none that is in storage; the save comes after the load,
\* saveBookmark after the save, notifyFactsAdded after both; and when
\* notifyFactsAdded is called the graph is in storage and the stored
\* bookmark is the event's.
C6_Steps ==
  \A h \in 1..Len(handlers) :
     /\ handlers[h].loads <= 1
     /\ handlers[h].asked = IF handlers[h].loads = 1
                             THEN unknownOf(handlers[h].references, handlers[h].known)
                             ELSE <<>>
     /\ handlers[h].pc \in {"load", "save", "saveBookmark", "notify"} => handlers[h].loads = 1
     /\ handlers[h].saved => handlers[h].loads = 1 /\ GraphKeys(h) \subseteq factStore
     /\ handlers[h].bookmarked => handlers[h].saved
     /\ handlers[h].notified => handlers[h].saved /\ handlers[h].bookmarked

C6_Step ==
  \A h \in 1..Len(handlers) :
     /\ (handlers[h].loads = 0 /\ handlers'[h].loads = 1)
           => \A i \in 1..Len(handlers'[h].asked) :
                 factKey(handlers'[h].asked[i]) \notin factStore
     /\ (~handlers[h].notified /\ handlers'[h].notified)
           => /\ BatchKeys(handlers'[h].graph) \subseteq factStore'
              /\ storedBookmark' = handlers[h].nextBookmark

C6_HandlerOrder == []C6_Steps /\ [][C6_Step]_vars

\* An event with a known and an unknown reference has been handled to the end.
C6_Witness ==
  \E h \in 1..Len(handlers) :
     /\ handlers[h].pc = "done"
     /\ handlers[h].known # <<>>
     /\ handlers[h].asked # <<>>
     /\ handlers[h].notified

\* C7: bookmark advance.  When the handler of an event ends, the stored
\* bookmark is the event's next bookmark, whatever its references; and the
\* bookmark is advanced only for an event whose graph is in storage.
C7_EndStep ==
  \A h \in 1..Len(handlers) :
     (handlers[h].pc # "done" /\ handlers'[h].pc = "done")
        => storedBookmark' = handlers[h].nextBookmark

C7_Saved ==
  \A h \in 1..Len(handlers) :
     handlers[h].bookmarked => handlers[h].saved /\ GraphKeys(h) \subseteq factStore

C7_BookmarkAdvance == []C7_Saved /\ [][C7_EndStep]_vars

\* C8: deduplicating ingest.  A reference of an event that is in storage
\* is not asked from the network, is not in the graph given to store.save
\* and to notifyFactsAdded, and the event's bookmark is stored when its
\* handler has ended.
C8_DeduplicatingIngest ==
  \A h \in 1..Len(handlers) :
     \A i \in 1..Len(handlers[h].known) :
        /\ handlers[h].known[i] \notin Range(handlers[h].asked)
        /\ factKey(handlers[h].known[i]) \notin GraphKeys(h)
        /\ handlers[h].pc = "done" => handlers[h].bookmarked

\* C9: the save of an event's graph and the advance of the bookmark are
\* one atomic step: in no state is one done and the other not.
C9_AtomicBookmark ==
  \A h \in 1..Len(handlers) : handlers[h].saved <=> handlers[h].bookmarked

\* C10: initialization barrier.  The promise of start() is resolved only
\* when the first event delivered for it has been handled to the end, and
\* rejected only when an error has been reported for it.
C10_Barrier ==
  \A s \in 1..Len(starts) :
     /\ starts[s].promise = "resolved"
          => FirstEvent(s) # 0 /\ handlers[FirstEvent(s)].pc = "done"
     /\ starts[s].promise = "rejected" => starts[s].errors >= 1
     /\ starts[s].promise = "none" => starts[s].calls = 0

\* stop() has returned and start() has not been called since.
Stopped == lastRef.op = "release" /\ lastRef.result

\* Some handler is between its call and its end.
InProgress(h) == handlers[h].pc \in {"whichExist", "load", "save", "saveBookmark", "notify"}

\* C11: cancellation is prompt.  Once stop() has returned, the handler of
\* an event of a connection that stop() has closed does not call
\* notifyFactsAdded, also when it was in flight when stop() was called.
C11_Step ==
  Stopped =>
    \A h \in 1..Len(handlers) :
       ~conns[handlers[h].conn].open => handlers'[h].notified = handlers[h].notified

C11_PromptStop == [][C11_Step]_vars

\* C12: backpressure.  No two handlers of the subscriber's stream events
\* are in progress at the same time.
C12_Backpressure ==
  \A g, h \in 1..Len(handlers) : (InProgress(g) /\ InProgress(h)) => g = h

\* C13: reconnection.  When the interval recycles the connection, the
\* connection the subscriber held is closed, the new stream is asked from
\* the bookmark the store holds for the feed, and no event whose bookmark
\* has been stored lies after it.
C13_Step ==
  (Len(conns') = Len(conns) + 1 /\ starts' = starts) =>
    LET new == conns'[Len(conns')]
    IN /\ disconnect # 0 => ~conns'[disconnect].open
       /\ new.open
       /\ new.bookmark = storedBookmark
       /\ \A h \in 1..Len(handlers) :
             handlers[h].bookmarked => handlers[h].nextBookmark <= new.bookmark

C13_Reconnection == [][C13_Step]_vars

(***************************************************************************)
(* Properties of FetchConnection.                                          *)
(***************************************************************************)
\* The call has come to rest: it has returned or thrown, or the promise it
\* awaits stays pending.
AtRest == http.pc \in {"done", "pending"}

\* The status of the i-th answer of the server (0 when the network failed
\* or did not answer).
StatusOf(i) == http.events[i].status

FinalStatus == IF http.responses = <<>> THEN 0
               ELSE http.responses[Len(http.responses)].statusCode

\* C14: reauthentication retry.  A call of post or get sends at most two
\* requests; once it is at rest it has sent a second request exactly when
\* the first answer had status 401, 407 or 419 and reauthenticate() returns
\* true; the second request carries headers fetched after reauthenticate();
\* and what the call returns or throws is decided by the last response.
C14_ReauthenticationRetry ==
  /\ Len(http.requests) <= 2
  /\ Len(http.requests) = 2 => http.requests[2].headers > http.requests[1].headers
  /\ (AtRest /\ http.events # <<>>)
       => (Len(http.requests) = 2
             <=> (isReauthenticate(StatusOf(1)) /\ http.reauthenticates))
  /\ http.pc = "done"
       => http.outcome = outcomeOf(http.op, http.responses[Len(http.responses)])

\* C15: post answers every 2xx status other than 200 with success and an
\* empty response, and does not throw.
C15_OtherSuccess ==
  (http.op = "post" /\ http.pc = "done"
     /\ FinalStatus >= 201 /\ FinalStatus <= 299)
    => http.outcome.result = "success" /\ http.outcome.response = "empty"

\* C16: a 403 is not retryable.  When the last answer of the server to a
\* post has status 403, post throws; it never returns "retry" for it.
C16_ForbiddenIsFatal ==
  (http.op = "post" /\ AtRest /\ http.events # <<>>
     /\ StatusOf(Len(http.events)) = 403)
    => http.pc = "done" /\ http.outcome.result = "threw"

\* C17: when the last answer to a post has a status from 400 on other than
\* 403, or the request timed out or the network failed, post returns
\* "retry" with an error message and does not throw.
C17_Retryable ==
  (http.op = "post" /\ AtRest /\ http.events # <<>>
     /\ LET last == http.events[Len(http.events)]
        IN \/ last.kind \in {"timeout", "failure"}
           \/ (last.status >= 400 /\ last.status # 403))
    => /\ http.pc = "done"
       /\ http.outcome.result = "retry"
       /\ http.outcome.error # ""

\* C36: every call settles.  Once the network has answered the request of
\* a post or get, with any status or with a failure, the promise the call
\* awaits is settled: the call goes on to return or throw and is never left
\* pending.
C36_Settles == http.pc # "pending"

(***************************************************************************)
(* Properties of the feed stream.                                          *)
(***************************************************************************)
IsPrefix(s, t) == Len(s) <= Len(t) /\ s = SubSeq(t, 1, Len(s))

\* C31: the feed stream delivers each line once.  The lines given to
\* onResponse are the first lines of the stream, each once and in order; no
\* parse error is reported for the lines of the server, also when a line is
\* split across two chunks; and while the client has not closed the stream
\* the reader stops reading only when the stream has ended and every line
\* has been delivered.
C31_EachLineOnce ==
  /\ IsPrefix(stream.delivered, stream.lines)
  /\ stream.parseErrors = << >>
  /\ (stream.pc # "idle" /\ ~stream.closed /\ stream.reads = 0)
       => (stream.ended /\ stream.delivered = stream.lines)

(***************************************************************************)
(* Properties of AuthorizationRules.                                       *)
(***************************************************************************)
Asked == authz.op = "isAuthorized"

RulesAsked == rulesByType[authz.fact.type]

\* The rule at index i returned true.
Authorizes(i) == ~authz.answers[i].threw /\ authz.answers[i].value

\* C18: isAuthorized answers true exactly when the type of the fact has
\* rules and at least one of them authorizes; an Any rule authorizes, a None
\* rule does not, and a type without rules gets false.
C18_AnyRuleAuthorizes ==
  Asked =>
    /\ (authz.result /\ ~authz.threw)
         <=> (RulesAsked # << >> /\ \E i \in 1..Len(RulesAsked) : Authorizes(i))
    /\ \A i \in 1..Len(RulesAsked) :
         /\ RulesAsked[i].kind = "any" => Authorizes(i)
         /\ RulesAsked[i].kind = "none" => ~Authorizes(i)

\* A specification with a match that seeks successors.
SeeksSuccessors(specification) ==
  \E i \in 1..Len(specification.matches) : seeksSuccessors(specification.matches[i])

\* C19: AuthorizationRules.type rejects a specification that seeks
\* successors when the rule is registered: the call throws and no such rule
\* is among the rules.
C19_RejectedAtConfiguration ==
  /\ (authz.op = "type" /\ authz.argument.kind = "specification"
        /\ SeeksSuccessors(authz.argument.specification)) => authz.threw
  /\ \A type \in AuthorizedTypes : \A i \in 1..Len(rulesByType[type]) :
       rulesByType[type][i].kind = "specification"
         => ~SeeksSuccessors(rulesByType[type][i].specification)

\* The references that the walk of a legacy query looks up in the evidence
\* without finding their fact.
RECURSIVE undefinedInQuery(_, _, _)
undefinedInQuery(factRecords, facts, steps) ==
  IF steps = << >> THEN {}
  ELSE LET next == executeStep(factRecords, facts, Head(steps))
       IN (IF Head(steps).step = "join" /\ Head(steps).direction = "predecessor"
           THEN {facts[i] : i \in {j \in 1..Len(facts) :
                                     findFact(factRecords, facts[j]) = << >>}}
           ELSE {})
          \cup (IF next.threw THEN {}
                ELSE undefinedInQuery(factRecords, next.value, Tail(steps)))

\* The references that the walk of the rule at index i demanded and that
\* have no fact in the evidence, for a legacy rule; whether there was one,
\* for a specification rule.
UndefinedOf(i) ==
  IF RulesAsked[i].kind = "query" /\ authz.userFact # NoUser
  THEN undefinedInQuery(authz.factRecords,
                        << Ref(authz.fact.type, authz.fact.hash) >>, RulesAsked[i].head)
  ELSE {}

DemandsUndefined(i) ==
  \/ UndefinedOf(i) # {}
  \/ RulesAsked[i].kind = "specification" /\ authz.answers[i].message = NotDefined

\* C20: a rule whose walk demands a fact that is not in the evidence does
\* not authorize, and the store is not asked about that fact; this holds for
\* legacy rules and for specification rules.
C20_FailsClosed ==
  Asked => \A i \in 1..Len(RulesAsked) :
    DemandsUndefined(i) =>
      /\ ~Authorizes(i)
      /\ authz.answers[i].queried \cap UndefinedOf(i) = {}

\* A specification rule that walks predecessors only, at index i of the
\* rules asked.
PredecessorsOnly(i) ==
  /\ RulesAsked[i].kind = "specification"
  /\ ~SeeksSuccessors(RulesAsked[i].specification)

\* The references bound to the projected label when the matches of the rule
\* at index i are evaluated from the fact over the evidence.
BoundTo(i) ==
  executeSpecification(authz.factRecords, RulesAsked[i].specification.given[1],
                       RulesAsked[i].specification.matches,
                       RulesAsked[i].specification.projection.label, authz.fact)

\* The owners of the lists of a task, read off the facts themselves.
ListOwners(task) ==
  { getPredecessors(list, "owner")[1] :
      list \in { f \in EvidenceFacts :
                   Ref(f.type, f.hash) \in Range(getPredecessors(task, "list")) } }

\* C21: a specification rule that walks predecessors only authorizes the
\* fact exactly when the user is among the references bound to the projected
\* label; the rule on list.owner authorizes a task for the owners of its
\* lists and forbids it for every other user.
C21_SpecificationRule ==
  Asked => \A i \in 1..Len(RulesAsked) : PredecessorsOnly(i) =>
    /\ Authorizes(i) <=> /\ authz.userFact # NoUser
                         /\ ~BoundTo(i).threw
                         /\ authz.userFact \in Range(BoundTo(i).value)
    /\ (/\ RulesAsked[i].specification = OwnerSpecification
        /\ authz.factRecords = EvidenceFacts
        /\ authz.userFact # NoUser)
         => /\ Authorizes(i) <=> authz.userFact \in ListOwners(authz.fact)
            /\ Len(RulesAsked) = 1
                 => (authz.result <=> authz.userFact \in ListOwners(authz.fact))

\* The rule on list.owner was asked about the task with all the evidence.
OwnerRuleAsked ==
  /\ Asked /\ Len(RulesAsked) = 1 /\ PredecessorsOnly(1)
  /\ RulesAsked[1].specification = OwnerSpecification
  /\ authz.fact = SharedTask /\ authz.factRecords = EvidenceFacts

C21_Witness == OwnerRuleAsked /\ authz.userFact = RefU2 /\ authz.result

\* C22: the answer of a specification rule that walks predecessors only
\* depends on the user, the fact and the evidence alone: whatever the store
\* holds the answer is the same, and the store is not read.
C22_SelfContained ==
  Asked => \A i \in 1..Len(RulesAsked) : PredecessorsOnly(i) =>
    /\ authz.answers[i].queried = {}
    /\ \A storeAnswer \in StoreAnswers :
         ruleIsAuthorized(RulesAsked[i], authz.userFact, authz.fact,
                          authz.factRecords, storeAnswer) = authz.answers[i]

\* A rule that walks predecessors only was asked with evidence that lacks a
\* fact while the store holds the user.
C22_Witness ==
  /\ Asked /\ Len(RulesAsked) = 1 /\ PredecessorsOnly(1)
  /\ authz.userFact = RefU1 /\ authz.storeAnswer = << RefU1 >>
  /\ authz.factRecords = {SharedTask} /\ authz.threw

(***************************************************************************)
(* Properties of the queries of the store.                                 *)
(***************************************************************************)
\* The keys a stored fact lists under a role.
ListedUnder(key, role) ==
  IF key \in factStore
  THEN { factKey(p) : p \in Range(getPredecessors(FactOfKey(key), role)) }
  ELSE {}

\* The stored facts that list a key under a role.
Listing(key, role) == { k \in factStore : key \in ListedUnder(k, role) }

\* One step of a walk over the stored facts themselves.
Stepped(keys, step) ==
  IF step.step = "join" /\ step.direction = "predecessor"
  THEN UNION { ListedUnder(k, step.role) : k \in keys }
  ELSE IF step.step = "join"
  THEN UNION { Listing(k, step.role) : k \in keys }
  ELSE { k \in keys : k[1] = step.value }

RECURSIVE Walked(_, _)
Walked(keys, steps) ==
  IF steps = << >> THEN keys ELSE Walked(Stepped(keys, Head(steps)), Tail(steps))

\* The queries made of joins and of conditions on the type.
IsWalk(steps) ==
  \A i \in 1..Len(steps) :
     \/ steps[i].step = "join"
     \/ steps[i].step = "property" /\ steps[i].name = "type"

QueryAsked == lastCall.op = "query"

\* The references the last query returned, each the end of its path.
Answered == Range(lastOf(lastCall.result))

\* C23: a query of joins and type conditions returns exactly the facts the
\* walk over the stored facts reaches: the listed predecessors for a
\* predecessor join, the stored facts that list the current fact for a
\* successor join, composed step by step; from task T the list of T is
\* [ref(L)], and from list L holding T alone the tasks are [ref(T)].
C23_StepQueryWalks ==
  (QueryAsked /\ IsWalk(lastCall.input[2])) =>
     /\ ~lastCall.failed
     /\ Answered = { keyToReference(k) :
                       k \in Walked({factKey(lastCall.input[1])}, lastCall.input[2]) }
     /\ (lastCall.input = << RefT, ListOfTask >> /\ factKey(FactT) \in factStore)
           => lastOf(lastCall.result) = << RefL >>
     /\ (lastCall.input = << RefL, TasksInList >> /\ factKey(FactT) \in factStore
           /\ factKey(FactT2) \notin factStore)
           => lastOf(lastCall.result) = << RefT >>

\* The grandparents of a stored completion have been asked for and found,
\* while list L2 has no task.
C23_Witness ==
  /\ QueryAsked
  /\ lastCall.input = << RefC, << Join("predecessor", "task"), Join("predecessor", "list") >> >>
  /\ lastOf(lastCall.result) = << RefL >>
  /\ factKey(FactL2) \in factStore
  /\ Listing(factKey(FactL2), "list") = {}

\* Each element of the input is in one of the two results, and they hold
\* nothing else.
Partitioned(input, exists, notExists) ==
  /\ Range(exists) \cup Range(notExists) = Range(input)
  /\ Range(exists) \cap Range(notExists) = {}

\* C24: existential symmetry.  Applied to the same input with the same
\* sub-query, the condition with Exists and the condition with NotExists
\* give two results that are disjoint and whose union is the input, in the
\* step executor of the store and in the evidence evaluator; a sub-query
\* that cannot be evaluated fails the condition under either quantifier.
C24_ExistentialSymmetry ==
  filtered.executor # "none" =>
     /\ filtered.exists.threw = filtered.notExists.threw
     /\ ~filtered.exists.threw =>
           Partitioned(filtered.input, filtered.exists.value, filtered.notExists.value)

\* The store has filtered the tasks of list L by their completion: one task
\* is kept under either quantifier.
C24_Witness ==
  /\ filtered.executor = "store"
  /\ Len(filtered.input) = 2
  /\ ~filtered.exists.threw
  /\ Len(filtered.exists.value) = 1
  /\ Len(filtered.notExists.value) = 1

\* Whether a query holds a NotExists condition, at any depth.
RECURSIVE HasNotExists(_)
HasNotExists(steps) ==
  \E i \in 1..Len(steps) :
     /\ steps[i].step = "existential"
     /\ steps[i].quantifier = "NotExists" \/ HasNotExists(steps[i].steps)

\* The paths a query returns over the edges.
Results(edges, start, steps) == Range(query(edges, start, steps).result)

\* C25: query monotonicity under adds.  For a query without a NotExists
\* condition and any start fact, every path the query returns before a save
\* it returns after the save as well.
C25_Monotonicity ==
  [][lastCall'.op = "save" =>
       \A start \in QueryStarts, steps \in Queries :
          ~HasNotExists(steps) =>
             Results(edgeStore, start, steps) \subseteq Results(edgeStore', start, steps)]_vars

\* The completed tasks of list L have been asked for and one was returned,
\* and a further graph has been saved since.
C25_Witness ==
  /\ lastCall.op = "save"
  /\ ~lastCall.failed
  /\ lastCall.result # << >>
  /\ Cardinality(Results(edgeStore, RefL, CompletedTasksInList)) = 2
  /\ Cardinality(Results(edgeStore, RefL, TasksInList)) = 2

(***************************************************************************)
(* Properties of the observer.                                             *)
(***************************************************************************)
Stored(fact) == factKey(fact) \in factStore

Added(fact) == observer.added[factKey(fact)]

Removed(fact) == observer.removed[factKey(fact)]

\* C26: NotExists removal.  While the uncompleted tasks of list L are
\* watched, a task in L that is stored and not completed has been emitted
\* via added; once the completion of T2 is saved, removed has been called
\* exactly once for T2, and not for T while T is not completed, and the
\* query then returns T only.
C26_NotExistsRemoval ==
  observer.watching =>
     /\ \A task \in {FactT, FactT2} : Added(task) <= 1 /\ Removed(task) <= Added(task)
     /\ (Stored(FactT) /\ ~Stored(FactC)) => Added(FactT) = 1 /\ Removed(FactT) = 0
     /\ (Stored(FactT2) /\ ~Stored(FactC2)) => Added(FactT2) = 1 /\ Removed(FactT2) = 0
     /\ (Added(FactT2) = 1 /\ Stored(FactC2)) => Removed(FactT2) = 1
     /\ (Stored(FactT) /\ ~Stored(FactC) /\ Stored(FactT2) /\ Stored(FactC2)) =>
           /\ observer.current = {RefT}
           /\ (lastCall.op = "query" /\ lastCall.input = << RefL, UncompletedTasksInList >>)
                 => lastCall.result = << << RefT >> >>

\* T and T2 were emitted via added, the completion of T2 was saved, removed
\* was called for T2, and the query has been asked again.
C26_Witness ==
  /\ observer.watching
  /\ Added(FactT) = 1
  /\ Added(FactT2) = 1
  /\ Stored(FactC2)
  /\ Removed(FactT2) = 1
  /\ Removed(FactT) = 0
  /\ lastCall.op = "query"
  /\ lastCall.input = << RefL, UncompletedTasksInList >>
  /\ lastCall.result = << << RefT >> >>

\* The tasks of list L that are stored and not completed.
Uncompleted ==
  { factKey(pair[1]) : pair \in { p \in {<< FactT, FactC >>, << FactT2, FactC2 >>} :
                                    Stored(p[1]) /\ ~Stored(p[2]) } }

\* C32: the initial pass of a watch.  The step that starts the observer
\* calls added exactly once for each task that is then stored in list L and
\* not completed, for no other fact, and calls removed for none;
\* initialized() resolves only when that pass has been made; and once the
\* observer was stopped no callback is invoked, whatever is saved.
C32_Step ==
  /\ (~observer.watching /\ observer'.watching) =>
        /\ \A k \in Keys : observer'.added[k] = IF k \in Uncompleted THEN 1 ELSE 0
        /\ \A k \in Keys : observer'.removed[k] = 0
        /\ ~observer'.initialized
  /\ observer'.initialized => observer.watching
  /\ observer.stopped => /\ observer'.added = observer.added
                         /\ observer'.removed = observer.removed

C32_InitialPass == [][C32_Step]_vars

\* The observer started on list L holding task T, announced T once, was
\* initialized and stopped; task T2 was saved afterwards without a callback.
C32_Witness ==
  /\ observer.initialized /\ observer.stopped
  /\ Added(FactT) = 1
  /\ Stored(FactT2) /\ ~Stored(FactC2)
  /\ Added(FactT2) = 0

(***************************************************************************)
(* Conditions on fields.                                                   *)
(***************************************************************************)
\* The value of a field of a fact of the walkthrough, or "" without it.
Field(key, name) ==
  CASE name = "type" -> key[1]
    [] name = "description" /\ key = factKey(FactT) -> "Take out the trash"
    [] name = "description" /\ key = factKey(FactT2) -> "Empty the dishwasher"
    [] name = "completed" /\ key[1] = "TaskComplete" -> "true"
    [] name = "name" /\ key = factKey(FactL) -> "Chores"
    [] name = "name" /\ key = factKey(FactL2) -> "Fun"
    [] OTHER -> ""

\* One step of a walk over the stored facts, conditions on fields included.
SteppedByField(keys, step) ==
  IF step.step = "property"
  THEN { k \in keys : Field(k, step.name) = step.value }
  ELSE Stepped(keys, step)

RECURSIVE WalkedByField(_, _)
WalkedByField(keys, steps) ==
  IF steps = << >> THEN keys
  ELSE WalkedByField(SteppedByField(keys, Head(steps)), Tail(steps))

\* The queries made of joins and of conditions on fields.
IsFieldWalk(steps) ==
  /\ \A i \in 1..Len(steps) : steps[i].step \in {"join", "property"}
  /\ \E i \in 1..Len(steps) : steps[i].step = "property"

\* C27: a PropertyCondition(name, value) step keeps the facts whose field
\* name equals value, for any field name; a condition that matches no fact,
\* at an interior or at the final position, makes the query return the
\* empty result, and the query does not fail.
C27_PropertyCondition ==
  (QueryAsked /\ IsFieldWalk(lastCall.input[2])) =>
     /\ ~lastCall.failed
     /\ Answered = { keyToReference(k) :
                       k \in WalkedByField({factKey(lastCall.input[1])}, lastCall.input[2]) }

\* The calls of added for a fact: the observer computes its delta from the
\* facts of each notification, so each notification that holds the fact
\* announces the results that the fact completes.
AddedCalls(key) ==
  Cardinality({ h \in 1..Len(handlers) : handlers[h].notified /\ key \in GraphKeys(h) })

\* C28: observer exactly-once.  Over any sequence of feed batches, also
\* when a fact is received again, added is called at most once for the
\* result a fact completes.
C28_ExactlyOnce == \A key \in Keys : AddedCalls(key) <= 1

(***************************************************************************)
(* Properties of the hash and of the fact channel.                         *)
(***************************************************************************)
\* C29: identity by content.  Two facts with the same type, fields and
\* predecessor content, built independently and with their members in any
\* order, have the same hash.
C29_IdentityByContent ==
  hashed # NoHash => hashed.hashes[1] = hashed.hashes[2]

\* The members of a fact that JSON.stringify writes.
Written(value) == SelectSeq(value.members, LAMBDA m : m.value.kind # "undefined")

\* Whether message k of the output is the message of the fact: it holds the
\* fields of the fact, and for each predecessor the id of an earlier message
\* that is the message of that predecessor.
RECURSIVE IsMessageOf(_, _)
IsMessageOf(k, value) ==
  /\ Len(channel.output[k].fact) = Len(Written(value))
  /\ \A n \in 1..Len(Written(value)) :
        /\ channel.output[k].fact[n].name = Written(value)[n].name
        /\ IF isPredecessor(Written(value)[n].value)
           THEN /\ channel.output[k].fact[n].reference
                /\ \E j \in 1..(k - 1) :
                      /\ channel.output[j].id = channel.output[k].fact[n].id
                      /\ IsMessageOf(j, Written(value)[n].value)
           ELSE /\ ~channel.output[k].fact[n].reference
                /\ channel.output[k].fact[n].value = Written(value)[n].value

\* C30: predecessors come first.  The last message written is the message
\* of the fact sent, the messages of its predecessors were written before
\* it, every predecessor field of a message holds the id of an earlier
\* message, and the ids of the messages increase strictly.
C30_PredecessorsFirst ==
  /\ \A i, j \in 1..Len(channel.output) :
        i < j => channel.output[i].id < channel.output[j].id
  /\ \A i \in 1..Len(channel.output) :
        \A n \in 1..Len(channel.output[i].fact) :
           channel.output[i].fact[n].reference =>
              \E j \in 1..(i - 1) : channel.output[j].id = channel.output[i].fact[n].id
  /\ channel.output # << >> =>
        /\ channel.reference = channel.output[Len(channel.output)].id
        /\ IsMessageOf(Len(channel.output), sent)

\* A task of two lists was sent last: its message is the sixth, and it
\* holds the id of the message of its array of lists.
C30_Witness ==
  /\ Len(channel.output) = 6
  /\ sent = TwoLists
  /\ channel.output[6].id = 11
  /\ channel.output[6].fact[2].reference
  /\ channel.output[6].fact[2].id = 9

(***************************************************************************)
(* Properties of the registration and the evaluation of the rules.         *)
(***************************************************************************)
\* A legacy query was handed to AuthorizationRules.type.
PrepositionRegistered == authz.op = "type" /\ authz.argument.kind = "preposition"

\* The rule that the last registration added to the rules of its type.
RuleAdded == rulesByType[authz.type][Len(rulesByType[authz.type])]

\* A step of the head: a predecessor join or a condition on the type.
IsHeadStep(step) ==
  \/ step.step = "join" /\ step.direction = "predecessor"
  \/ step.step = "property" /\ step.name = "type"

\* The references the head of the legacy rule at index i reaches from the
\* fact over the evidence.
HeadReached(i) ==
  executeQuery(authz.factRecords, << Ref(authz.fact.type, authz.fact.hash) >>,
               RulesAsked[i].head)

\* C33: a legacy query is refused at registration when it has no step, does
\* not begin with a join or begins with a successor join; otherwise the rule
\* holds as head the longest prefix of predecessor joins and type conditions
\* and as tail the rest, head followed by tail being the steps given.  When
\* asked, the head is walked over the evidence and the tail is handed to the
\* store from every reference the head reached, and the rule authorizes
\* exactly when the user is the last reference of a resulting path.
C33_LegacyQueryRule ==
  /\ PrepositionRegistered =>
       /\ authz.threw <=> \/ authz.argument.steps = << >>
                          \/ authz.argument.steps[1].step # "join"
                          \/ authz.argument.steps[1].direction # "predecessor"
       /\ ~authz.threw =>
            /\ RuleAdded.kind = "query"
            /\ RuleAdded.head \o RuleAdded.tail = authz.argument.steps
            /\ \A n \in 1..Len(RuleAdded.head) : IsHeadStep(RuleAdded.head[n])
            /\ RuleAdded.tail # << >> => ~IsHeadStep(RuleAdded.tail[1])
  /\ Asked => \A i \in 1..Len(RulesAsked) :
       (RulesAsked[i].kind = "query" /\ authz.userFact # NoUser) =>
          /\ ~HeadReached(i).threw
          /\ ~authz.answers[i].threw
          /\ RulesAsked[i].tail = << >> =>
               /\ authz.answers[i].queried = {}
               /\ authz.answers[i].value
                    <=> authz.userFact \in Range(HeadReached(i).value)
          /\ RulesAsked[i].tail # << >> =>
               /\ authz.answers[i].queried = Range(HeadReached(i).value)
               /\ authz.answers[i].value
                    <=> /\ HeadReached(i).value # << >>
                        /\ authz.userFact \in Range(authz.storeAnswer)

\* The rule of list -> member -> user, whose tail begins at the successor
\* join, was asked about the task and authorized the user the store
\* answered from the lists the evidence holds.
C33_Witness ==
  /\ Asked /\ Len(RulesAsked) = 1
  /\ RulesAsked[1] = AuthorizationRuleQuery(<< Join("predecessor", "list") >>,
                       << Join("successor", "member"), Join("predecessor", "user") >>)
  /\ authz.fact = SharedTask /\ authz.userFact = RefU1
  /\ authz.answers[1].queried = {RefList1, RefList2}
  /\ authz.result

\* The rule at index i of the rules asked threw.
Raises(i) ==
  ruleIsAuthorized(RulesAsked[i], authz.userFact, authz.fact, authz.factRecords,
                   authz.storeAnswer).threw

\* C38: an error of one rule is the outcome of isAuthorized.  Every rule
\* registered for the type of the fact is evaluated, and when one of them
\* raises an error the call fails and does not authorize, also when another
\* rule of the type, such as Any, authorizes the fact.
C38_RuleErrorFails ==
  Asked =>
    /\ Len(authz.answers) = Len(RulesAsked)
    /\ \A i \in 1..Len(RulesAsked) : authz.answers[i].threw <=> Raises(i)
    /\ (\E i \in 1..Len(RulesAsked) : Raises(i)) => (authz.threw /\ ~authz.result)
    /\ authz.threw => \E i \in 1..Len(RulesAsked) :
                         Raises(i) /\ authz.answers[i].message # ""

\* An Any rule authorized, the rule after it threw, and the call failed.
C38_Witness ==
  /\ Asked /\ Len(RulesAsked) = 2
  /\ RulesAsked[1].kind = "any" /\ Authorizes(1)
  /\ Raises(2)
  /\ authz.threw

\* C39: with no user logged in, a legacy query rule and a specification
\* rule answer false without a throw and without a query of the store, and
\* the fact is authorized exactly when an Any rule is registered for its
\* type.
C39_NoUserNoAccess ==
  (Asked /\ authz.userFact = NoUser) =>
    /\ \A i \in 1..Len(RulesAsked) :
         RulesAsked[i].kind \in {"query", "specification"} =>
            authz.answers[i] = Answer(FALSE, {})
    /\ ~authz.threw
    /\ authz.result <=> \E i \in 1..Len(RulesAsked) : RulesAsked[i].kind = "any"

\* With no user, a legacy rule with a tail and a specification that seeks
\* successors were asked about the task with all the evidence: neither
\* authorized, neither threw.
C39_Witness ==
  /\ Asked /\ authz.userFact = NoUser /\ Len(RulesAsked) = 2
  /\ RulesAsked[1].kind = "query" /\ RulesAsked[1].tail # << >>
  /\ RulesAsked[2].kind = "specification"
  /\ SeeksSuccessors(RulesAsked[2].specification)
  /\ authz.fact = SharedTask /\ authz.factRecords = EvidenceFacts
  /\ ~authz.result /\ ~authz.threw

\* The connections that are open and the intervals that are set.
OpenConnections == { c \in 1..Len(conns) : conns[c].open }

ActiveTimers == { t \in 1..Len(timers) : timers[t].active }

\* No start() call is still awaiting store.loadBookmark.
NoStartPending == \A s \in 1..Len(starts) : starts[s].pc # "loadBookmark"

\* C34: stop wins over a pending start.  Once stop() has been called, start
\* has not been called again and no start() call is still awaiting
\* loadBookmark, the subscriber holds no open feed connection and no
\* interval, also when stop() was called before the connection and the
\* interval were created.
C34_StopWins ==
  (Stopped /\ NoStartPending) => (OpenConnections = {} /\ ActiveTimers = {})

\* C35: between a start and the matching stop at most one feed connection
\* is open and at most one interval is set, and after stop() none is.
C35_SingleConnection ==
  /\ Cardinality(OpenConnections) <= 1
  /\ Cardinality(ActiveTimers) <= 1
  /\ refCount >= 1 => /\ OpenConnections \subseteq {disconnect}
                      /\ ActiveTimers \subseteq {timer}

(***************************************************************************)
(* Properties of the descriptive strings.                                  *)
(***************************************************************************)
Has(text, char) == \E i \in 1..Len(text) : text[i] = char

\* The names of the steps hold no space and no '=', and the values, as
\* they are printed, no double quote.
Printable(steps) ==
  \A i \in 1..Len(steps) :
     /\ ~Has(steps[i].name, " ") /\ ~Has(steps[i].name, "=")
     /\ ~Has(toText(steps[i].value), "\"")

\* The values of the conditions are strings.
StringValued(steps) == \A i \in 1..Len(steps) : steps[i].value.type = "string"

\* A string that does not begin with a step letter and a '.', that ends
\* with a space, or whose only double quote opens a value.
IsMalformed(text) ==
  /\ text # << >>
  /\ \/ text[1] \notin {"P", "S", "F"}
     \/ Len(text) < 2
     \/ text[2] # "."
     \/ text[Len(text)] = " "
     \/ \E i \in 2..Len(text) :
          /\ text[i] = "\"" /\ text[i - 1] = "="
          /\ \A j \in 1..Len(text) : text[j] = "\"" => j = i

\* What the round trip gives for the strings: a string the parser accepts
\* is printed back as it was, the empty string gives the query of no step,
\* and a malformed string makes the parser throw.
ParsedBack ==
  described.op = "parse" =>
    /\ ~described.parsed.threw
         => toDescriptiveString(described.parsed.value) = described.descriptive
    /\ described.descriptive = << >> => described.parsed = Returned(<< >>)
    /\ IsMalformed(described.descriptive) => described.parsed.threw

====
